---- MODULE Spec2Model ----
(***************************************************************************)
(* Verification model of NotifAI (src-tauri/src): the projection engine    *)
(* (projection.rs), the notification deduplicator (notification.rs) and    *)
(* the polling cycle fetch_and_update (lib.rs).                            *)
(*                                                                         *)
(* Time.  chrono instants and durations carry sub-second precision; the    *)
(* model counts them in ticks, TicksPerSec ticks to the second.  Instants  *)
(* are ticks since an arbitrary epoch.                                     *)
(*                                                                         *)
(* Floats.  f32 values are modelled exactly as sign / 24-bit mantissa /    *)
(* exponent records (value = m * 2^e), with round-to-nearest-even.         *)
(***************************************************************************)
EXTENDS Integers, Sequences, FiniteSets, TLC

\* ------------------------------------------------------------------------
\* Bounds of the model
\* ------------------------------------------------------------------------
\* clock resolution: ticks per second (the code has nanoseconds)
TicksPerSec == 2
\* Local::now() is observed at most this many ticks after a whole minute
MaxNowTicks == 3
\* in a run of polling cycles the clock drifts at most this many ticks off
\* the whole minute
MaxDrift == 1
\* the timer thread sleeps at most this many times
MaxPolls == 1
\* the per-period notification counter saturates here
MaxEmit == 2
\* record_notification calls in the deduplicator's unit specification
MaxRecords == 3
\* the 100 ms receive polls that make up the drivers' wall-clock budgets
\* (codex 45 s, claude 30 s) and the 10 s after which /status is re-sent
CodexTimeoutPolls == 3
ClaudeTimeoutPolls == 2
ResendPolls == 1
\* chunks the child may have written that the controller has not consumed
MaxChan == 2
\* chunks a child writes in one driver call
MaxChunks == 2
\* lines of a captured Codex text
MaxTextLines == 2

\* ------------------------------------------------------------------------
\* chrono::Duration
\* ------------------------------------------------------------------------
Secs(s) == s * TicksPerSec

\* Duration::num_seconds: whole seconds, truncated toward zero
num_seconds(d) ==
  IF d >= 0 THEN d \div TicksPerSec ELSE 0 - ((0 - d) \div TicksPerSec)

\* Duration::minutes(5): the near-reset guard of calculate_projection
GuardSecs == 300

\* PeriodType::duration, in seconds
SessionSecs == 18000
WeeklySecs == 604800

PeriodTypes == {"Session", "Weekly"}

duration(period_type) ==
  IF period_type = "Session" THEN Secs(SessionSecs) ELSE Secs(WeeklySecs)

\* ------------------------------------------------------------------------
\* f32 arithmetic
\* ------------------------------------------------------------------------
Pow23 == 8388608
Pow24 == 16777216

F32Zero == [k |-> "fin", s |-> 0, m |-> 0, e |-> 0]
F32Inf == [k |-> "inf", s |-> 0, m |-> 0, e |-> 0]
F32NaN == [k |-> "nan", s |-> 0, m |-> 0, e |-> 0]

\* round q + r/d to the nearest integer, ties to even; renormalise when the
\* mantissa carries into the 25th bit
F32Pack(q, r, d, e) ==
  LET up == (2 * r > d) \/ (2 * r = d /\ q % 2 = 1)
      m1 == IF up THEN q + 1 ELSE q
  IN IF m1 = Pow24 THEN [k |-> "fin", s |-> 0, m |-> Pow23, e |-> e + 1]
                   ELSE [k |-> "fin", s |-> 0, m |-> m1, e |-> e]

\* the quotient is below 2^23: shift one more bit into the mantissa
RECURSIVE F32ShiftLeft(_, _, _, _)
F32ShiftLeft(q, r, d, e) ==
  IF q >= Pow23 THEN F32Pack(q, r, d, e)
  ELSE LET b == IF 2 * r >= d THEN 1 ELSE 0
       IN F32ShiftLeft(2 * q + b, 2 * r - b * d, d, e - 1)

\* the quotient is 2^24 or more: halve the scale until it fits
RECURSIVE F32ShiftRight(_, _, _)
F32ShiftRight(n, d, e) ==
  IF n \div d < Pow24 THEN F32Pack(n \div d, n % d, d, e)
  ELSE F32ShiftRight(n, 2 * d, e + 1)

\* magnitude of n / d for n > 0, d > 0, rounded to f32
F32Mag(n, d) ==
  IF n \div d >= Pow24 THEN F32ShiftRight(n, d, 0)
  ELSE F32ShiftLeft(n \div d, n % d, d, 0)

\* (n as f64 / d as f64) as f32 for integers n >= 0 and any integer d.
\* IEEE division never traps: x/0 is +inf, 0/0 is NaN.  The f64 quotient
\* of integers this small rounds to the same f32 as the exact quotient.
F32Div(n, d) ==
  IF d = 0 THEN (IF n = 0 THEN F32NaN ELSE F32Inf)
  ELSE IF n = 0 THEN F32Zero
  ELSE IF d < 0 THEN [F32Mag(n, 0 - d) EXCEPT !.s = 1]
  ELSE F32Mag(n, d)

\* an integer literal or a parsed integer as f32
F32(n) == F32Div(n, 1)

F32MagLt(a, b) ==
  IF a.m = 0 THEN b.m > 0
  ELSE IF b.m = 0 THEN FALSE
  ELSE a.e < b.e \/ (a.e = b.e /\ a.m < b.m)

\* a < b on f32 (false when either is NaN)
F32Lt(a, b) ==
  IF a.k = "nan" \/ b.k = "nan" THEN FALSE
  ELSE IF a.k = "inf" THEN FALSE
  ELSE IF b.k = "inf" THEN TRUE
  ELSE IF a.s # b.s THEN a.s = 1 /\ ~(a.m = 0 /\ b.m = 0)
  ELSE IF a.s = 0 THEN F32MagLt(a, b)
  ELSE F32MagLt(b, a)

\* a == b on f32
F32Eq(a, b) ==
  IF a.k = "nan" \/ b.k = "nan" THEN FALSE
  ELSE IF a.k = "inf" \/ b.k = "inf" THEN a.k = b.k
  ELSE (a.m = 0 /\ b.m = 0) \/ (a.s = b.s /\ a.m = b.m /\ a.e = b.e)

\* a <= b on f32
F32Le(a, b) == F32Lt(a, b) \/ F32Eq(a, b)

\* a >= b on f32
F32Ge(a, b) == F32Le(b, a)


\* ------------------------------------------------------------------------
\* projection.rs: BudgetStatus, ProjectedUsage, calculate_projection
\* ------------------------------------------------------------------------
BudgetStatus == {"UnderBudget", "OnTrack", "OverBudget", "Unknown"}

\* Option<T>: None is the empty sequence, Some(x) the one-element sequence
None == <<>>
Some(x) == <<x>>
IsSome(o) == o # <<>>
Unwrap(o) == o[1]

\* variant: the value is passed on without the clamp
max_unclamped(a, b) == a

\* i64::max
Max(a, b) == IF a >= b THEN a ELSE b

ProjectedUsage(current_percent, projected_percent, status, time_remaining_secs) ==
  [current_percent |-> current_percent,
   projected_percent |-> projected_percent,
   status |-> status,
   time_remaining_secs |-> time_remaining_secs]

\* if time_remaining < Duration::minutes(5)
near_reset(time_remaining) == time_remaining < Secs(GuardSecs)

\* variant: exactly 100% already counts as over budget
near_reset_status_strict(current_percent) ==
  IF F32Lt(current_percent, F32(100)) THEN "UnderBudget" ELSE "OverBudget"

\* near reset: over/under split at the 100% line
near_reset_status(current_percent) ==
  IF F32Le(current_percent, F32(100)) THEN "UnderBudget" ELSE "OverBudget"

\* variant: exactly 10% of the period still counts as too early
elapsed_ratio_small_incl(elapsed_secs, total_secs) ==
  elapsed_secs * 10 <= total_secs

\* elapsed_ratio < 0.1, elapsed_ratio = elapsed secs as f64 / period secs as
\* f64.  Both period lengths are multiples of ten seconds, so the f64
\* quotient is below the f64 constant 0.1 exactly when 10 * elapsed < period.
elapsed_ratio_small(elapsed_secs, total_secs) == elapsed_secs * 10 < total_secs

\* variant: only a negative elapsed time is caught
elapsed_nonpositive_strict(elapsed_secs) == elapsed_secs < 0

\* if elapsed_secs <= 0.0
elapsed_nonpositive(elapsed_secs) == elapsed_secs <= 0

\* variant: the rate is taken over the whole period instead of the elapsed
\* part
extrapolate_swapped(current_int, total_secs, elapsed_secs) ==
  F32Div(current_int * elapsed_secs, total_secs)

\* (current_percent as f64 * total_secs / elapsed_secs) as f32
extrapolate(current_int, total_secs, elapsed_secs) ==
  F32Div(current_int * total_secs, elapsed_secs)

\* variant: a projection equal to the under-budget threshold is under budget
classify_incl(projected_percent, threshold_under_budget, threshold_over_budget) ==
  IF F32Le(projected_percent, threshold_under_budget) THEN "UnderBudget"
  ELSE IF F32Le(projected_percent, threshold_over_budget) THEN "OnTrack"
  ELSE "OverBudget"

\* status from the projected percentage and the configured thresholds
classify(projected_percent, threshold_under_budget, threshold_over_budget) ==
  IF F32Lt(projected_percent, threshold_under_budget) THEN "UnderBudget"
  ELSE IF F32Le(projected_percent, threshold_over_budget) THEN "OnTrack"
  ELSE "OverBudget"

\* calculate_projection; current_int is the integer the parser read (the
\* f32 current_percent is F32(current_int)), now is the value of Local::now()
calculate_projection(current_int, reset_time, period_type, threshold_under_budget, threshold_over_budget, now) ==
  LET current_percent == F32(current_int)
      period_duration == duration(period_type)
      period_start == reset_time - period_duration
      time_elapsed == now - period_start
      time_remaining == reset_time - now
      elapsed_secs == num_seconds(time_elapsed)
      total_secs == num_seconds(period_duration)
      projected_percent == extrapolate(current_int, total_secs, elapsed_secs)
  IN IF near_reset(time_remaining)
       THEN ProjectedUsage(current_percent, current_percent,
                           near_reset_status(current_percent),
                           Max(num_seconds(time_remaining), 0))
     ELSE IF current_int = 0
       THEN IF elapsed_ratio_small(elapsed_secs, total_secs)
              THEN ProjectedUsage(current_percent, F32Zero, "Unknown",
                                  num_seconds(time_remaining))
              ELSE ProjectedUsage(current_percent, F32Zero, "UnderBudget",
                                  num_seconds(time_remaining))
     ELSE IF elapsed_nonpositive(elapsed_secs)
       THEN ProjectedUsage(current_percent, current_percent, "Unknown",
                           num_seconds(time_remaining))
     ELSE ProjectedUsage(current_percent, projected_percent,
                         classify(projected_percent, threshold_under_budget,
                                  threshold_over_budget),
                         num_seconds(time_remaining))


\* QuotaProjection
QuotaProjection(session, week_all, week_sonnet) ==
  [session |-> session, week_all |-> week_all, week_sonnet |-> week_sonnet]

\* variant: UnderBudget ranked above OnTrack
status_key_swapped(s) ==
  CASE s = "OverBudget" -> 3
    [] s = "OnTrack" -> 1
    [] s = "UnderBudget" -> 2
    [] OTHER -> 0

\* the key closure of worst_status
status_key(s) ==
  CASE s = "OverBudget" -> 3
    [] s = "OnTrack" -> 2
    [] s = "UnderBudget" -> 1
    [] OTHER -> 0

\* Iterator::max_by_key over a sequence: the last maximal element, None when
\* the sequence is empty
RECURSIVE max_by_key(_, _)
max_by_key(seq, best) ==
  IF seq = <<>> THEN best
  ELSE max_by_key(Tail(seq),
                  IF best = None \/ status_key(Head(seq)) >= status_key(Unwrap(best))
                    THEN Some(Head(seq)) ELSE best)

\* the present projections, in field order (filter_map(|p| p.as_ref()))
present_projections(projection) ==
  projection.session \o projection.week_all \o projection.week_sonnet

\* QuotaProjection::worst_status
worst_status(projection) ==
  LET present == present_projections(projection)
      statuses == [i \in 1..Len(present) |-> present[i].status]
      best == max_by_key(statuses, None)
  IN IF best = None THEN "Unknown" ELSE Unwrap(best)

\* ------------------------------------------------------------------------
\* lib.rs: the combined status of fetch_and_update
\* ------------------------------------------------------------------------
\* variant: the arm (_, OnTrack) is missing
combine_status_no_arm(overall, status) ==
  IF overall = "OverBudget" THEN "OverBudget"
  ELSE IF status = "OverBudget" THEN "OverBudget"
  ELSE IF overall = "OnTrack" THEN "OnTrack"
  ELSE IF overall = "UnderBudget" THEN "UnderBudget"
  ELSE IF status = "UnderBudget" THEN "UnderBudget"
  ELSE status

\* one step of the fold: the match on (overall_status, status)
combine_status(overall, status) ==
  IF overall = "OverBudget" THEN "OverBudget"
  ELSE IF status = "OverBudget" THEN "OverBudget"
  ELSE IF overall = "OnTrack" THEN "OnTrack"
  ELSE IF status = "OnTrack" THEN "OnTrack"
  ELSE IF overall = "UnderBudget" THEN "UnderBudget"
  ELSE IF status = "UnderBudget" THEN "UnderBudget"
  ELSE status

RECURSIVE fold_status(_, _)
fold_status(overall, statuses) ==
  IF statuses = <<>> THEN overall
  ELSE fold_status(combine_status(overall, Head(statuses)), Tail(statuses))

\* Option<QuotaProjection> -> Option<BudgetStatus>: p.as_ref().map(worst_status)
map_worst(opt_projection) ==
  IF IsSome(opt_projection) THEN Some(worst_status(Unwrap(opt_projection))) ELSE None

\* overall_status: Unknown folded over the flattened worst statuses, in the
\* order given
\* variant: the combined status needs a projection of every tool
overall_status_all_or_unknown(projections) ==
  IF \E i \in 1..Len(projections) : ~IsSome(projections[i]) THEN "Unknown"
  ELSE fold_status("Unknown",
                   [i \in 1..Len(projections) |->
                      worst_status(Unwrap(projections[i]))])

overall_status_of(projections) ==
  LET RECURSIVE flat(_)
      flat(ps) == IF ps = <<>> THEN <<>> ELSE map_worst(Head(ps)) \o flat(Tail(ps))
  IN fold_status("Unknown", flat(projections))

\* ------------------------------------------------------------------------
\* notification.rs: NotificationState, check_notifications
\* ------------------------------------------------------------------------
QuotaType == {"Session", "WeekAll", "WeekSonnet"}
NotificationSeverity == {"Approaching", "OverBudget"}
NotifKeys == QuotaType \X NotificationSeverity

\* NotificationState::new: an empty map (absent key = None)
NotificationState_new == [key \in NotifKeys |-> None]

\* NotificationState::should_notify
should_notify(state, quota, severity, reset_time) ==
  LET last == state[<<quota, severity>>]
  IN IF IsSome(last) THEN Unwrap(last) # reset_time ELSE TRUE

\* variant: an existing entry is kept (entry().or_insert)
record_notification_keep(state, quota, severity, reset_time) ==
  [state EXCEPT ![<<quota, severity>>] =
     IF IsSome(@) THEN @ ELSE Some(reset_time)]

\* NotificationState::record_notification: HashMap::insert
record_notification(state, quota, severity, reset_time) ==
  [state EXCEPT ![<<quota, severity>>] = Some(reset_time)]

NotificationInfo(quota_type, severity, projected_percent, reset_time) ==
  [quota_type |-> quota_type, severity |-> severity,
   projected_percent |-> projected_percent, reset_time |-> reset_time]

\* the check_quota closure; now is its Local::now()
\* variant: the Approaching test is an independent `if`, not an `else if`
check_quota_both(quota_type, proj, state, approaching_threshold, over_budget_threshold, now) ==
  IF ~IsSome(proj) THEN <<>>
  ELSE LET p == Unwrap(proj)
           reset_time == now + Secs(p.time_remaining_secs)
       IN (IF F32Ge(p.projected_percent, over_budget_threshold)
              /\ should_notify(state, quota_type, "OverBudget", reset_time)
             THEN <<NotificationInfo(quota_type, "OverBudget",
                                     p.projected_percent, reset_time)>>
             ELSE <<>>)
          \o (IF F32Ge(p.projected_percent, approaching_threshold)
                 /\ should_notify(state, quota_type, "Approaching", reset_time)
                THEN <<NotificationInfo(quota_type, "Approaching",
                                        p.projected_percent, reset_time)>>
                ELSE <<>>)

\* the closure check_quota of check_notifications
check_quota(quota_type, proj, state, approaching_threshold, over_budget_threshold, now) ==
  IF ~IsSome(proj) THEN <<>>
  ELSE LET p == Unwrap(proj)
           reset_time == now + Secs(p.time_remaining_secs)
       IN IF F32Ge(p.projected_percent, over_budget_threshold)
            THEN IF should_notify(state, quota_type, "OverBudget", reset_time)
                   THEN <<NotificationInfo(quota_type, "OverBudget",
                                           p.projected_percent, reset_time)>>
                   ELSE <<>>
          ELSE IF F32Ge(p.projected_percent, approaching_threshold)
            THEN IF should_notify(state, quota_type, "Approaching", reset_time)
                   THEN <<NotificationInfo(quota_type, "Approaching",
                                           p.projected_percent, reset_time)>>
                   ELSE <<>>
          ELSE <<>>

\* check_notifications; nows[i] is the Local::now() of the i-th closure call
check_notifications(projection, state, approaching_threshold, over_budget_threshold, nows) ==
  check_quota("Session", projection.session, state, approaching_threshold,
              over_budget_threshold, nows[1])
  \o check_quota("WeekAll", projection.week_all, state, approaching_threshold,
                 over_budget_threshold, nows[2])
  \o check_quota("WeekSonnet", projection.week_sonnet, state,
                 approaching_threshold, over_budget_threshold, nows[3])


\* ------------------------------------------------------------------------
\* settings.rs: Settings, validate, load_settings
\* ------------------------------------------------------------------------
REFRESH_INTERVALS == {5, 15, 30, 60}

Settings(refresh, under, on_track, enabled, approaching, over) ==
  [refresh_interval_minutes |-> refresh,
   threshold_under_budget |-> under,
   threshold_on_track |-> on_track,
   notifications_enabled |-> enabled,
   notify_approaching_percent |-> approaching,
   notify_over_budget_percent |-> over]

\* impl Default for Settings
Settings_default == Settings(15, 85, 115, TRUE, 100, 115)

\* Settings::validate: TRUE for Ok(()), FALSE for Err(errors)
validate(st) ==
  /\ st.refresh_interval_minutes \in REFRESH_INTERVALS
  /\ ~(st.threshold_under_budget < 1 \/ st.threshold_under_budget > 99)
  /\ ~(st.threshold_on_track < 2 \/ st.threshold_on_track > 200)
  /\ ~(st.threshold_under_budget >= st.threshold_on_track)
  /\ ~(st.notify_approaching_percent < 1 \/ st.notify_approaching_percent > 200)
  /\ ~(st.notify_over_budget_percent < 1 \/ st.notify_over_budget_percent > 200)
  /\ ~(st.notify_over_budget_percent < st.notify_approaching_percent)

\* Option::unwrap_or
unwrap_or(o, default) == IF IsSome(o) THEN Unwrap(o) ELSE default

\* load_settings: store is None when the store cannot be opened, otherwise a
\* record of optional fields; each absent field falls back to its default and
\* an invalid result is replaced by the defaults
load_settings(store) ==
  IF ~IsSome(store) THEN Settings_default
  ELSE LET f == Unwrap(store)
           d == Settings_default
           loaded ==
             Settings(unwrap_or(f.refresh_interval_minutes, d.refresh_interval_minutes),
                      unwrap_or(f.threshold_under_budget, d.threshold_under_budget),
                      unwrap_or(f.threshold_on_track, d.threshold_on_track),
                      unwrap_or(f.notifications_enabled, d.notifications_enabled),
                      unwrap_or(f.notify_approaching_percent, d.notify_approaching_percent),
                      unwrap_or(f.notify_over_budget_percent, d.notify_over_budget_percent))
       IN IF validate(loaded) THEN loaded ELSE Settings_default

\* ------------------------------------------------------------------------
\* projection.rs: parse_reset_time, calculate_all_projections
\* ------------------------------------------------------------------------
DaySecs == 86400

\* A reset string is represented by what it denotes:
\*   [form |-> "time", today |-> t]   "<h>[:<mm>]<am|pm> (<tz>)", t today's
\*                                    occurrence of that time in the timezone
\*   [form |-> "date", this_year |-> t, next_year |-> o]
\*                                    "<Mon> <d> at <h>[:<mm>]<am|pm> (<tz>)",
\*                                    t the occurrence in the current year, o
\*                                    the one in the next year (None when that
\*                                    date or local time does not exist)
\*   [form |-> "none"]                no pattern matches, or the month, the
\*                                    timezone or the date does not resolve
\* parse_reset_time; now is its Local::now()
parse_reset_time(reset_str, now) ==
  IF reset_str.form = "date"
    THEN IF reset_str.this_year < now THEN reset_str.next_year
         ELSE Some(reset_str.this_year)
  ELSE IF reset_str.form = "time"
    THEN IF reset_str.today <= now THEN Some(reset_str.today + Secs(DaySecs))
         ELSE Some(reset_str.today)
  ELSE None

\* UsageData: the fields of usage.rs and the codex_* fields codex.rs sets
UsageData(session_pct, session_reset, week_all_pct, week_all_reset, week_sonnet_pct, week_sonnet_reset, five_left, five_reset, week_left, week_reset) ==
  [current_session_percent |-> session_pct,
   current_session_reset |-> session_reset,
   current_week_all_models_percent |-> week_all_pct,
   current_week_all_models_reset |-> week_all_reset,
   current_week_sonnet_percent |-> week_sonnet_pct,
   current_week_sonnet_reset |-> week_sonnet_reset,
   extra_usage_enabled |-> FALSE,
   codex_five_hour_left |-> five_left,
   codex_five_hour_reset |-> five_reset,
   codex_week_left |-> week_left,
   codex_week_reset |-> week_reset]

\* pct.and_then(|pct| reset.as_ref().and_then(parse_reset_time).map(...))
project_quota(pct, reset, period_type, threshold_under_budget, threshold_over_budget, now) ==
  IF ~IsSome(pct) THEN None
  ELSE IF ~IsSome(reset) THEN None
  ELSE LET reset_time == parse_reset_time(Unwrap(reset), now)
       IN IF ~IsSome(reset_time) THEN None
          ELSE Some(calculate_projection(Unwrap(pct), Unwrap(reset_time),
                                         period_type, threshold_under_budget,
                                         threshold_over_budget, now))

\* variant: one unresolved reset string fails the whole reading (`?`)
calculate_all_projections_all_or_none(usage, threshold_under_budget, threshold_over_budget, now) ==
  LET unresolved(pct, reset) ==
        IsSome(pct) /\ (~IsSome(reset)
                          \/ ~IsSome(parse_reset_time(Unwrap(reset), now)))
  IN IF \/ unresolved(usage.current_session_percent,
                       usage.current_session_reset)
        \/ unresolved(usage.current_week_all_models_percent,
                       usage.current_week_all_models_reset)
        \/ unresolved(usage.current_week_sonnet_percent,
                       usage.current_week_sonnet_reset)
       THEN QuotaProjection(None, None, None)
       ELSE QuotaProjection(
              project_quota(usage.current_session_percent,
                            usage.current_session_reset, "Session",
                            threshold_under_budget, threshold_over_budget, now),
              project_quota(usage.current_week_all_models_percent,
                            usage.current_week_all_models_reset, "Weekly",
                            threshold_under_budget, threshold_over_budget, now),
              project_quota(usage.current_week_sonnet_percent,
                            usage.current_week_sonnet_reset, "Weekly",
                            threshold_under_budget, threshold_over_budget, now))

\* calculate_all_projections
calculate_all_projections(usage, threshold_under_budget, threshold_over_budget, now) ==
  QuotaProjection(
    project_quota(usage.current_session_percent, usage.current_session_reset,
                  "Session", threshold_under_budget, threshold_over_budget, now),
    project_quota(usage.current_week_all_models_percent,
                  usage.current_week_all_models_reset,
                  "Weekly", threshold_under_budget, threshold_over_budget, now),
    project_quota(usage.current_week_sonnet_percent,
                  usage.current_week_sonnet_reset,
                  "Weekly", threshold_under_budget, threshold_over_budget, now))


\* ------------------------------------------------------------------------
\* State
\* ------------------------------------------------------------------------
VARIABLES
  proj_in,             \* arguments of one call of a pure function
  proj_out,            \* its result (None before the call)
  st_in,               \* the two tools' Option<QuotaProjection>
  st_out,              \* worst statuses and combined status (None before)
  record_log,          \* the record_notification calls made so far
  asked,               \* the last should_notify call and its answer
  clock,               \* Local::now()
  app_state,           \* AppState behind its mutex
  last_notifications,  \* NotificationState.last_notifications
  cycle,               \* locals of the running fetch_and_update
  tray_icon,           \* status shown by update_tray_icon
  timer_due,           \* a fetch_and_update call is pending: the initial
                       \* fetch of run(), or the timer thread woke up
  emitted,             \* notifications shown per (tool, quota, severity,
                       \* resolved reset instant), saturating at MaxEmit
  driver,              \* one run_codex_status / run_claude_usage call: the
                       \* controller's locals, the child and the bytes on
                       \* their way to the controller
  store,               \* settings.json as the store plugin holds it (None
                       \* when it cannot be opened)
  threads              \* the two mutexes and the threads run() starts:
                       \* each thread's position and locals

projVars == <<proj_in, proj_out>>
statusVars == <<st_in, st_out>>
notifVars == <<record_log, asked>>
cycleVars == <<clock, app_state, cycle, tray_icon, timer_due, emitted>>
driverVars == <<driver>>
storeVars == <<store>>
threadVars == <<threads>>
vars == <<proj_in, proj_out, st_in, st_out, record_log, asked, clock,
          app_state, last_notifications, cycle, tray_icon, timer_due, emitted,
          driver, store, threads>>

Tools == {"claude", "codex"}

\* Result<T, E>
Ok(x) == <<"Ok", x>>
Err == <<"Err">>
IsOk(r) == r[1] = "Ok"
OkVal(r) == r[2]
\* Result::ok
ok(r) == IF IsOk(r) THEN Some(OkVal(r)) ELSE None

\* ------------------------------------------------------------------------
\* Inputs
\* ------------------------------------------------------------------------
\* the instant the run starts at: a whole minute
NowBase == Secs(WeeklySecs)

\* percentages the CLI reports ("<integer>% used")
PctInputs == {0, 1, 20, 50, 85, 100, 101, 150}

\* reset instants given to calculate_projection, in seconds after NowBase;
\* parse_reset_time yields whole minutes
ResetOffsetSecs ==
  {0 - 60, 0, 240, 300, 360, 7200, 10800, 12000, 16200, 16260, 17940, 18000,
   18060, 302400, 544320, 544380, 604740, 604800, 604860}

\* (threshold_under_budget, threshold_on_track) accepted by validate
ThresholdInputs == {<<85, 115>>, <<1, 2>>, <<99, 200>>, <<50, 60>>}

ProjInputs ==
  [pct : PctInputs,
   reset_time : {NowBase + Secs(o) : o \in ResetOffsetSecs},
   period_type : PeriodTypes,
   thr : ThresholdInputs,
   now : {NowBase + t : t \in 0..MaxNowTicks}]

\* the call calculate_projection makes for the arguments a
project(a) ==
  calculate_projection(a.pct, a.reset_time, a.period_type,
                       F32(a.thr[1]), F32(a.thr[2]), a.now)

\* reset strings of a Claude report
SessionReset == [form |-> "time", today |-> NowBase + Secs(3600)]
WeekReset ==
  [form |-> "date", this_year |-> NowBase + Secs(1080),
   next_year |-> Some(NowBase + Secs(1080) + Secs(365 * DaySecs))]
BadReset == [form |-> "none"]

ResetStrings == {SessionReset, WeekReset, BadReset}

\* every instant a reset string of the inputs can resolve to
ResetInstants ==
  {SessionReset.today, SessionReset.today + Secs(DaySecs),
   WeekReset.this_year, Unwrap(WeekReset.next_year)}

\* Claude readings: nothing matched; a session over budget with a week
\* approaching it and a section whose reset string does not resolve; a
\* moderate session alone; a session without reset line beside a week
ClaudeReadings ==
  {UsageData(None, None, None, None, None, None, None, None, None, None),
   UsageData(Some(110), Some(SessionReset), Some(110), Some(WeekReset),
             Some(50), Some(BadReset), None, None, None, None),
   UsageData(Some(50), Some(SessionReset), None, None, None, None,
             None, None, None, None),
   UsageData(Some(110), None, None, None, Some(120), Some(WeekReset),
             None, None, None, None)}

\* parse_codex_output starts from UsageData::new() and sets codex_* only
CodexReadings ==
  {UsageData(None, None, None, None, None, None,
             Some(99), Some("13:35"), Some(80), Some("13:17"))}

\* UsageData::new(): what the parsers return when nothing matches
UsageData_new ==
  UsageData(None, None, None, None, None, None, None, None, None, None)

\* how a fetch can end: the driver fails before its loop (openpty, spawn,
\* reader: Err); its loop ends on the report, the end of the child's output
\* or its exit, and the text is parsed; or its loop ends on the deadline and
\* the partial text, here one in which nothing matches, is parsed
ClaudeFetches ==
  {[end |-> "error", usage |-> Err]}
  \cup {[end |-> "finished", usage |-> Ok(u)] : u \in ClaudeReadings}
  \cup {[end |-> "deadline", usage |-> Ok(UsageData_new)]}

CodexFetches ==
  {[end |-> "error", usage |-> Err]}
  \cup {[end |-> "finished", usage |-> Ok(u)] : u \in CodexReadings}
  \cup {[end |-> "deadline", usage |-> Ok(UsageData_new)]}

\* contents of the settings store at startup
StoreInputs ==
  {None,
   Some([refresh_interval_minutes |-> Some(15),
         threshold_under_budget |-> Some(50),
         threshold_on_track |-> Some(60),
         notifications_enabled |-> None,
         notify_approaching_percent |-> Some(60),
         notify_over_budget_percent |-> Some(110)]),
   Some([refresh_interval_minutes |-> None,
         threshold_under_budget |-> None,
         threshold_on_track |-> None,
         notifications_enabled |-> Some(FALSE),
         notify_approaching_percent |-> None,
         notify_over_budget_percent |-> None]),
   Some([refresh_interval_minutes |-> Some(10),
         threshold_under_budget |-> Some(120),
         threshold_on_track |-> Some(100),
         notifications_enabled |-> Some(FALSE),
         notify_approaching_percent |-> Some(120),
         notify_over_budget_percent |-> Some(100)])}


\* ------------------------------------------------------------------------
\* lib.rs: AppState, fetch_and_update
\* ------------------------------------------------------------------------
\* AppState::new, then the settings run() loads at setup
AppState_new(st) ==
  [usage_claude |-> None, usage_codex |-> None,
   projection_claude |-> None, projection_codex |-> None,
   last_refresh |-> None, is_refreshing |-> FALSE, settings |-> st]

\* no fetch_and_update is running
CycleIdle ==
  [pc |-> "idle", current_settings |-> Settings_default,
   claude_usage |-> Err, codex_usage |-> Err,
   projection_claude |-> None, projection_codex |-> None,
   overall_status |-> "Unknown", events |-> <<>>,
   notified |-> [t \in Tools |-> <<>>],
   ended |-> [t \in Tools |-> "none"], delivered |-> TRUE]

\* if let Ok(ref u) = usage { projection = Some(calculate_all_projections(..)) }
project_tool(usage, st, now) ==
  IF IsOk(usage)
    THEN Some(calculate_all_projections(OkVal(usage),
                                        F32(st.threshold_under_budget),
                                        F32(st.threshold_on_track), now))
    ELSE None

\* for info in notifications { show; record_notification }
RECURSIVE record_all(_, _)
record_all(state, infos) ==
  IF infos = <<>> THEN state
  ELSE record_all(record_notification(state, Head(infos).quota_type,
                                      Head(infos).severity,
                                      Head(infos).reset_time),
                  Tail(infos))

\* the notifications of one tool's projection under the held guard
tool_notifications(opt_projection, state, st, now) ==
  IF IsSome(opt_projection)
    THEN check_notifications(Unwrap(opt_projection), state,
                             F32(st.notify_approaching_percent),
                             F32(st.notify_over_budget_percent),
                             <<now, now, now>>)
    ELSE <<>>

\* the reset instant a quota's projection of this cycle was computed from
resolved_reset(usage, quota, now) ==
  LET u == OkVal(usage)
      r == IF quota = "Session" THEN u.current_session_reset
           ELSE IF quota = "WeekAll" THEN u.current_week_all_models_reset
           ELSE u.current_week_sonnet_reset
  IN Unwrap(parse_reset_time(Unwrap(r), now))

\* the projection this cycle holds for one tool's quota
cycle_projection(c, tool, quota) ==
  LET pr == IF tool = "claude" THEN c.projection_claude ELSE c.projection_codex
      f == IF quota = "Session" THEN "session"
           ELSE IF quota = "WeekAll" THEN "week_all" ELSE "week_sonnet"
  IN IF IsSome(pr) THEN Unwrap(pr)[f] ELSE None

\* the notification threshold of a severity
notify_threshold(st, severity) ==
  IF severity = "OverBudget" THEN F32(st.notify_over_budget_percent)
  ELSE F32(st.notify_approaching_percent)

\* the shown-notification counts of the keys whose quota, in this cycle, is
\* still in the same reset period and at or above the severity's threshold
still_qualifying(em, c) ==
  LET keep == {k \in DOMAIN em :
                 LET pr == cycle_projection(c, k[1], k[2])
                 IN /\ IsSome(pr)
                    /\ c.events[k[1]][k[2]] = k[4]
                    /\ F32Ge(Unwrap(pr).projected_percent,
                             notify_threshold(c.current_settings, k[3]))}
  IN IF keep = {} THEN <<>> ELSE [k \in keep |-> em[k]]

\* count the shown notifications of one tool
RECURSIVE count_emitted(_, _, _, _)
count_emitted(em, tool, infos, resets) ==
  IF infos = <<>> THEN em
  ELSE LET i == Head(infos)
           key == <<tool, i.quota_type, i.severity, resets[i.quota_type]>>
           em1 == IF key \notin DOMAIN em THEN em @@ (key :> 1)
                  ELSE IF em[key] < MaxEmit THEN [em EXCEPT ![key] = @ + 1]
                  ELSE em
       IN count_emitted(em1, tool, Tail(infos), resets)

\* fetch_and_update, lines 275-279: read the settings under the lock
Begin ==
  /\ cycle.pc = "idle"
  /\ timer_due
  /\ timer_due' = FALSE
  /\ cycle' = [CycleIdle EXCEPT !.pc = "fetch",
                                !.current_settings = app_state.settings]
  /\ UNCHANGED <<clock, app_state, last_notifications, tray_icon, emitted>>
  /\ UNCHANGED <<projVars, statusVars, notifVars, driverVars, storeVars, threadVars>>

\* lines 281-347: both fetches, the projections, the early return when no
\* tool produced data, and the combined status
Fetch(claude_fetch, codex_fetch) ==
  /\ cycle.pc = "fetch"
  /\ LET st == cycle.current_settings
         claude_usage == claude_fetch.usage
         codex_usage == codex_fetch.usage
         ended == [t \in Tools |-> IF t = "claude" THEN claude_fetch.end
                                   ELSE codex_fetch.end]
         projection_claude == project_tool(claude_usage, st, clock)
         projection_codex == project_tool(codex_usage, st, clock)
     IN IF projection_claude = None /\ projection_codex = None
          THEN cycle' = [CycleIdle EXCEPT !.ended = ended]
          ELSE cycle' = [cycle EXCEPT
                  !.pc = "notify",
                  !.ended = ended,
                  !.claude_usage = claude_usage,
                  !.codex_usage = codex_usage,
                  !.projection_claude = projection_claude,
                  !.projection_codex = projection_codex,
                  !.overall_status =
                     overall_status_of(<<projection_claude, projection_codex>>),
                  !.events =
                     [t \in Tools |->
                        [q \in QuotaType |->
                           LET pr == IF t = "claude" THEN projection_claude
                                     ELSE projection_codex
                               f == IF q = "Session" THEN "session"
                                    ELSE IF q = "WeekAll" THEN "week_all"
                                    ELSE "week_sonnet"
                               u == IF t = "claude" THEN claude_usage
                                    ELSE codex_usage
                           IN IF IsSome(pr) /\ IsSome(Unwrap(pr)[f])
                                THEN resolved_reset(u, q, clock)
                                ELSE 0]]]
  /\ UNCHANGED <<clock, app_state, last_notifications, tray_icon, timer_due,
                 emitted>>
  /\ UNCHANGED <<projVars, statusVars, notifVars, driverVars, storeVars, threadVars>>

\* lines 349-369: under the NotificationState lock, check each tool's
\* projection and show and record every notification; show_ok is whether
\* show() succeeded (its result is discarded)
Notify(show_ok) ==
  /\ cycle.pc = "notify"
  /\ LET st == cycle.current_settings
         n_claude == tool_notifications(cycle.projection_claude,
                                        last_notifications, st, clock)
         s1 == record_all(last_notifications, n_claude)
         n_codex == tool_notifications(cycle.projection_codex, s1, st, clock)
         s2 == record_all(s1, n_codex)
         em == still_qualifying(emitted, cycle)
     IN IF st.notifications_enabled
          THEN /\ last_notifications' = s2
               /\ emitted' =
                    IF show_ok
                      THEN count_emitted(
                             count_emitted(em, "claude", n_claude,
                                           cycle.events["claude"]),
                             "codex", n_codex, cycle.events["codex"])
                      ELSE em
               /\ cycle' = [cycle EXCEPT
                      !.pc = "update",
                      !.delivered = show_ok \/ (n_claude \o n_codex = <<>>),
                      !.notified = [t \in Tools |->
                                      IF t = "claude" THEN n_claude
                                      ELSE n_codex]]
          ELSE /\ UNCHANGED last_notifications
               /\ emitted' = em
               /\ cycle' = [cycle EXCEPT !.pc = "update"]
  /\ UNCHANGED <<clock, app_state, tray_icon, timer_due>>
  /\ UNCHANGED <<projVars, statusVars, notifVars, driverVars, storeVars, threadVars>>

\* lines 371-399: store the cycle's results, rebuild the menu, set the icon
Update ==
  /\ cycle.pc = "update"
  /\ app_state' = [app_state EXCEPT
        !.usage_claude = ok(cycle.claude_usage),
        !.usage_codex = ok(cycle.codex_usage),
        !.projection_claude = cycle.projection_claude,
        !.projection_codex = cycle.projection_codex,
        !.last_refresh = Some(clock)]
  /\ tray_icon' = cycle.overall_status
  /\ cycle' = CycleIdle
  /\ UNCHANGED <<clock, last_notifications, timer_due, emitted>>
  /\ UNCHANGED <<projVars, statusVars, notifVars, driverVars, storeVars, threadVars>>

\* the clock advances by one tick while fetch_and_update runs (a tick that
\* passes between two cycles is the same as one before the first clock read
\* of the later cycle)
Tick ==
  /\ cycle.pc # "idle"
  /\ (clock - NowBase) % Secs(60) < MaxDrift
  /\ clock' = clock + 1
  /\ UNCHANGED <<app_state, last_notifications, cycle, tray_icon, timer_due,
                 emitted>>
  /\ UNCHANGED <<projVars, statusVars, notifVars, driverVars, storeVars, threadVars>>

\* start_auto_refresh: the timer thread sleeps one refresh interval and then
\* calls fetch_and_update
Sleep ==
  /\ cycle.pc = "idle"
  /\ ~timer_due
  /\ clock + Secs(app_state.settings.refresh_interval_minutes * 60)
       <= NowBase + Secs(MaxPolls * Settings_default.refresh_interval_minutes * 60) + MaxDrift
  /\ clock' = clock + Secs(app_state.settings.refresh_interval_minutes * 60)
  /\ timer_due' = TRUE
  /\ UNCHANGED <<app_state, last_notifications, cycle, tray_icon, emitted>>
  /\ UNCHANGED <<projVars, statusVars, notifVars, driverVars, storeVars, threadVars>>

UnitIdle ==
  /\ proj_in = None /\ proj_out = None
  /\ st_in = None /\ st_out = None
  /\ record_log = <<>> /\ asked = None

\* no driver call is running
DriverIdle ==
  [tool |-> "none", pc |-> "idle", elapsed |-> 0, child |-> "none",
   family |-> "none", stream |-> "none", written |-> <<>>, pty |-> <<>>,
   thread |-> "none", chan |-> <<>>, received |-> <<>>,
   output |-> <<>>, current_screen |-> <<>>,
   sent_status |-> FALSE, resent_command |-> FALSE, saw_loading |-> FALSE,
   writes |-> <<>>, sent_at |-> None, seen_since |-> FALSE,
   resent_at |-> None,
   cause |-> "none", kill_issued |-> FALSE, result |-> "none",
   returned |-> None]

\* bound: the refresh menu events of a run
ManualRefreshes == 1

\* the threads of run(): the auto-refresh loop, the initial fetch, one
\* thread per refresh menu event, and the caller of the settings commands
ManualThreads == {"manual" \o ToString(i) : i \in 1..ManualRefreshes}
FetchThreads == {"timer", "initial"} \cup ManualThreads
Threads == FetchThreads \cup {"ui"}

\* a thread's locals outside any call
ThreadIdle ==
  [pc |-> "unspawned", current_settings |-> Settings_default,
   claude_usage |-> Err, codex_usage |-> Err, todo |-> <<>>, infos |-> <<>>,
   skip |-> FALSE]

\* both mutexes unlocked, no thread started
ThreadsIdle ==
  [state_mutex |-> None, notif_mutex |-> None,
   th |-> [t \in Threads |-> ThreadIdle]]

CycleInit ==
  /\ driver = DriverIdle
  /\ threads = ThreadsIdle
  /\ clock = NowBase
  /\ cycle = CycleIdle
  /\ tray_icon = "Unknown"
  /\ timer_due = TRUE
  /\ emitted = <<>>

Init ==
  /\ UnitIdle
  /\ CycleInit
  /\ store \in StoreInputs
  /\ app_state = AppState_new(load_settings(store))
  /\ last_notifications = NotificationState_new

Next ==
  \/ Begin
  \/ \E cf \in ClaudeFetches, xf \in CodexFetches : Fetch(cf, xf)
  \/ \E show_ok \in BOOLEAN : Notify(show_ok)
  \/ Update
  \/ Tick
  \/ Sleep

Spec == Init /\ [][Next]_vars


\* ------------------------------------------------------------------------
\* Specification SpecProj: one call of calculate_projection
\* ------------------------------------------------------------------------
CycleQuiet ==
  /\ CycleInit
  /\ store = None
  /\ app_state = AppState_new(Settings_default)
  /\ last_notifications = NotificationState_new

InitProj ==
  /\ proj_in \in {Some(a) : a \in ProjInputs}
  /\ proj_out = None
  /\ st_in = None /\ st_out = None
  /\ record_log = <<>> /\ asked = None
  /\ CycleQuiet

\* the call
ProjApply ==
  /\ proj_out = None
  /\ proj_out' = Some(project(Unwrap(proj_in)))
  /\ UNCHANGED <<proj_in, statusVars, notifVars, cycleVars, driverVars, storeVars, threadVars,
                 last_notifications>>

NextProj == ProjApply

SpecProj == InitProj /\ [][NextProj]_vars

\* the arguments and the result of the call, once made
Applied == proj_out # None
PIn == Unwrap(proj_in)
POut == Unwrap(proj_out)

\* remaining time to reset and elapsed time since period start, in ticks
RemainingOf(a) == a.reset_time - a.now
ElapsedOf(a) == a.now - (a.reset_time - duration(a.period_type))
\* whole seconds of the period and of the elapsed time
PeriodSecsOf(a) == IF a.period_type = "Session" THEN SessionSecs ELSE WeeklySecs
ElapsedSecsOf(a) == num_seconds(ElapsedOf(a))

\* the result is the same under every configured pair of thresholds
ThresholdsIgnored ==
  \A t \in ThresholdInputs : project([PIn EXCEPT !.thr = t]) = POut

\* C4: with less than 5 minutes to the reset (also a reset in the past) the
\* projected percent is the current percent and the status is UnderBudget
\* when current <= 100 and OverBudget otherwise, whatever the thresholds;
\* never OnTrack or Unknown.
Thm_C4_NearReset ==
  (Applied /\ RemainingOf(PIn) < Secs(GuardSecs)) =>
    /\ POut.projected_percent = F32(PIn.pct)
    /\ POut.current_percent = F32(PIn.pct)
    /\ POut.status = (IF PIn.pct <= 100 THEN "UnderBudget" ELSE "OverBudget")
    /\ POut.status \notin {"OnTrack", "Unknown"}
    /\ ThresholdsIgnored

\* a call 60 s after the reset with more than 100% used, under thresholds
\* that would classify 101% as on track
Wit_C4_NearReset ==
  /\ Applied
  /\ RemainingOf(PIn) < 0
  /\ PIn.pct = 101
  /\ PIn.thr = <<99, 200>>
  /\ POut.status = "OverBudget"

\* C5: for every current percent (zero included) and both period types, a
\* call with elapsed time <= 0 returns Unknown with projected = current: the
\* quotient by the non-positive elapsed time (infinite, negative or NaN) is
\* never the result.
Thm_C5_ElapsedNonPositive ==
  (Applied /\ ElapsedOf(PIn) <= 0) =>
    /\ POut.status = "Unknown"
    /\ POut.projected_percent = F32(PIn.pct)
    /\ POut.projected_percent.k = "fin"
    /\ POut.projected_percent.s = 0

\* a call at the very start of the period (elapsed = 0) with usage reported
Wit_C5_ElapsedNonPositive ==
  /\ Applied
  /\ ElapsedOf(PIn) = 0
  /\ PIn.pct = 50
  /\ POut.status = "Unknown"


\* the other calls C6 compares with: same percent, period type and
\* thresholds, another reset instant or clock reading
SameQuota(b) ==
  /\ b.pct = PIn.pct
  /\ b.period_type = PIn.period_type
  /\ b.thr = PIn.thr

\* the call with the same elapsed time under the weekly period
AsWeekly(a) ==
  [a EXCEPT !.period_type = "Weekly",
            !.reset_time = @ + Secs(WeeklySecs - SessionSecs)]

Thm_C8_ZeroUsage ==
  (Applied /\ PIn.pct = 0 /\ RemainingOf(PIn) >= Secs(GuardSecs)) =>
    /\ POut.projected_percent = F32Zero
    /\ (ElapsedOf(PIn) * 10 < duration(PIn.period_type)) =>
         POut.status = "Unknown"
    /\ (ElapsedOf(PIn) * 10 >= duration(PIn.period_type)) =>
         POut.status = "UnderBudget"
    /\ ThresholdsIgnored

\* zero usage when exactly a tenth of the period has elapsed
Wit_C8_ZeroUsage ==
  /\ Applied
  /\ PIn.pct = 0
  /\ ElapsedOf(PIn) * 10 = duration(PIn.period_type)
  /\ POut.status = "UnderBudget"

\* C38: every ProjectedUsage has time_remaining_secs >= 0, also for a reset
\* instant in the past: the guard branch clamps it to 0, every other branch
\* has at least 5 minutes remaining.
Thm_C38_RemainingNonNegative ==
  Applied =>
    /\ POut.time_remaining_secs >= 0
    /\ RemainingOf(PIn) < 0 => POut.time_remaining_secs = 0
    /\ RemainingOf(PIn) >= Secs(GuardSecs) =>
         /\ POut.time_remaining_secs >= GuardSecs
         /\ POut.time_remaining_secs = num_seconds(RemainingOf(PIn))

\* a call made after the reset instant: zero seconds remaining
Wit_C38_RemainingNonNegative ==
  /\ Applied
  /\ RemainingOf(PIn) < 0
  /\ POut.time_remaining_secs = 0

\* C39: the projected percent is never below the current percent; it is
\* above it only in the extrapolation branch (5 minutes or more remaining,
\* usage above zero, a second or more elapsed), where the elapsed time is
\* below the period length.
Thm_C39_ProjectedAtLeastCurrent ==
  Applied =>
    /\ F32Le(F32(PIn.pct), POut.projected_percent)
    /\ F32Lt(F32(PIn.pct), POut.projected_percent) =>
         /\ RemainingOf(PIn) >= Secs(GuardSecs)
         /\ PIn.pct > 0
         /\ ElapsedSecsOf(PIn) >= 1
         /\ ElapsedSecsOf(PIn) < PeriodSecsOf(PIn)
         /\ POut.projected_percent =
              extrapolate(PIn.pct, PeriodSecsOf(PIn), ElapsedSecsOf(PIn))

\* exactly 5 minutes before a session reset at 50%: projected above 50
Wit_C39_ProjectedAtLeastCurrent ==
  /\ Applied
  /\ PIn.pct = 50
  /\ PIn.period_type = "Session"
  /\ RemainingOf(PIn) = Secs(GuardSecs)
  /\ F32Lt(F32(50), POut.projected_percent)


\* ------------------------------------------------------------------------
\* Specification SpecStatus: worst_status and the combined status
\* ------------------------------------------------------------------------
\* one projection of each status, as calculate_projection returns them
StatusSamples ==
  {calculate_projection(pct, NowBase + Secs(7200), "Session", F32(85), F32(115),
                        NowBase) : pct \in {20, 60, 100}}
  \cup {calculate_projection(0, NowBase + Secs(17940), "Session", F32(85),
                             F32(115), NowBase)}

OptProjectedUsage == {None} \cup {Some(u) : u \in StatusSamples}

OptQuotaProjection ==
  {None} \cup {Some(QuotaProjection(s, a, n)) :
                 s \in OptProjectedUsage, a \in OptProjectedUsage,
                 n \in OptProjectedUsage}

InitStatus ==
  /\ st_in \in {Some([claude |-> c, codex |-> x]) :
                  c \in OptQuotaProjection, x \in OptQuotaProjection}
  /\ st_out = None
  /\ proj_in = None /\ proj_out = None
  /\ record_log = <<>> /\ asked = None
  /\ CycleQuiet

\* p.worst_status() of each tool that produced a projection
StatusWorst ==
  /\ st_out = None
  /\ st_out' = Some([worst |-> [t \in Tools |-> map_worst(Unwrap(st_in)[t])],
                     overall |-> None])
  /\ UNCHANGED <<st_in, projVars, notifVars, cycleVars, driverVars, storeVars, threadVars,
                 last_notifications>>

\* the fold of fetch_and_update, reached unless both projections are None
StatusOverall ==
  /\ st_out # None
  /\ Unwrap(st_out).overall = None
  /\ ~(Unwrap(st_in).claude = None /\ Unwrap(st_in).codex = None)
  /\ st_out' = Some([Unwrap(st_out) EXCEPT !.overall =
                       Some(overall_status_of(<<Unwrap(st_in).claude,
                                                Unwrap(st_in).codex>>))])
  /\ UNCHANGED <<st_in, projVars, notifVars, cycleVars, driverVars, storeVars, threadVars,
                 last_notifications>>

NextStatus == StatusWorst \/ StatusOverall

SpecStatus == InitStatus /\ [][NextStatus]_vars

\* the order OverBudget > OnTrack > UnderBudget > Unknown
StatusRank(s) ==
  IF s = "OverBudget" THEN 3 ELSE IF s = "OnTrack" THEN 2
  ELSE IF s = "UnderBudget" THEN 1 ELSE 0

\* the maximum of a set of statuses under that order, Unknown when empty
MaxStatus(S) ==
  IF S = {} THEN "Unknown"
  ELSE CHOOSE w \in S : \A s \in S : StatusRank(s) <= StatusRank(w)

\* the statuses of the quotas a projection holds
PresentStatuses(qp) ==
  {Unwrap(qp[f]).status : f \in {f \in {"session", "week_all", "week_sonnet"} :
                                   IsSome(qp[f])}}

\* C9: worst_status is the maximum status of the present quota projections
\* under OverBudget > OnTrack > UnderBudget > Unknown: OverBudget when any
\* present quota is OverBudget, Unknown when all present quotas are Unknown
\* or none is present; absent quotas have no influence.
Thm_C9_WorstStatus ==
  st_out # None =>
    \A t \in Tools :
      LET qp == Unwrap(st_in)[t]
          w == Unwrap(st_out).worst[t]
      IN /\ IsSome(qp) <=> IsSome(w)
         /\ IsSome(qp) =>
              LET P == PresentStatuses(Unwrap(qp))
              IN /\ Unwrap(w) = MaxStatus(P)
                 /\ "OverBudget" \in P => Unwrap(w) = "OverBudget"
                 /\ P \subseteq {"Unknown"} => Unwrap(w) = "Unknown"

\* OnTrack beside UnderBudget with the third quota absent: OnTrack
Wit_C9_WorstStatus ==
  /\ st_out # None
  /\ LET qp == Unwrap(st_in).claude
     IN /\ IsSome(qp)
        /\ Unwrap(qp).session # None
        /\ Unwrap(Unwrap(qp).session).status = "OnTrack"
        /\ Unwrap(qp).week_all = None
        /\ Unwrap(qp).week_sonnet # None
        /\ Unwrap(Unwrap(qp).week_sonnet).status = "UnderBudget"
  /\ Unwrap(st_out).worst["claude"] = Some("OnTrack")

\* the worst statuses of the tools that produced a projection
ToolWorsts ==
  {worst_status(Unwrap(Unwrap(st_in)[t])) :
     t \in {t \in Tools : IsSome(Unwrap(st_in)[t])}}

\* C10: the combined status is the maximum of the worst statuses of the
\* tools that produced a projection, whichever tool is folded first, and it
\* is Unknown only if each of these worst statuses is Unknown.
Thm_C10_OverallStatus ==
  (st_out # None /\ Unwrap(st_out).overall # None) =>
    LET o == Unwrap(Unwrap(st_out).overall)
    IN /\ o = MaxStatus(ToolWorsts)
       /\ o = overall_status_of(<<Unwrap(st_in).codex, Unwrap(st_in).claude>>)
       /\ o = "Unknown" => ToolWorsts = {"Unknown"}

\* Claude at worst UnderBudget, Codex at worst OnTrack: combined OnTrack
Wit_C10_OverallStatus ==
  /\ st_out # None
  /\ Unwrap(st_out).worst["claude"] = Some("UnderBudget")
  /\ Unwrap(st_out).worst["codex"] = Some("OnTrack")
  /\ Unwrap(st_out).overall = Some("OnTrack")

\* ------------------------------------------------------------------------
\* Specification SpecNotif: calls on one NotificationState
\* ------------------------------------------------------------------------
\* reset instants passed to the deduplicator: one and the one 5 hours later
NotifInstants == {NowBase + Secs(7200), NowBase + Secs(7200 + SessionSecs)}

InitNotif ==
  /\ last_notifications = NotificationState_new
  /\ record_log = <<>>
  /\ asked = None
  /\ proj_in = None /\ proj_out = None
  /\ st_in = None /\ st_out = None
  /\ CycleInit
  /\ store = None
  /\ threads = ThreadsIdle
  /\ app_state = AppState_new(Settings_default)

\* state.record_notification(quota, severity, reset_time)
RecordCall(quota, severity, reset_time) ==
  /\ Len(record_log) < MaxRecords
  /\ last_notifications' =
       record_notification(last_notifications, quota, severity, reset_time)
  /\ record_log' = Append(record_log, [quota |-> quota, severity |-> severity,
                                       reset_time |-> reset_time])
  /\ asked' = None
  /\ UNCHANGED <<projVars, statusVars, cycleVars, driverVars, storeVars, threadVars>>

\* state.should_notify(&quota, &severity, reset_time)
AskCall(quota, severity, reset_time) ==
  /\ asked' = Some([quota |-> quota, severity |-> severity,
                    reset_time |-> reset_time,
                    answer |-> should_notify(last_notifications, quota,
                                             severity, reset_time)])
  /\ UNCHANGED <<last_notifications, record_log, projVars, statusVars,
                 cycleVars, driverVars, storeVars, threadVars>>

NextNotif ==
  \/ \E q \in QuotaType, s \in NotificationSeverity, r \in NotifInstants :
       RecordCall(q, s, r)
  \/ \E q \in QuotaType, s \in NotificationSeverity, r \in NotifInstants :
       AskCall(q, s, r)

SpecNotif == InitNotif /\ [][NextNotif]_vars

\* the record_notification calls made for one (quota, severity), in order
RecordsOf(quota, severity) ==
  SelectSeq(record_log, LAMBDA e : e.quota = quota /\ e.severity = severity)

\* the most recently recorded instant for (quota, severity) is c
LastRecordedIs(quota, severity, c) ==
  LET rs == RecordsOf(quota, severity)
  IN Len(rs) > 0 /\ rs[Len(rs)].reset_time = c

\* C1: should_notify(q, s, c) is false exactly when the most recently
\* recorded instant for (q, s) is c: true when nothing was recorded for
\* (q, s), false for r right after record_notification(q, s, r), true for
\* every other instant.
Thm_C1_Dedup ==
  /\ \A q \in QuotaType, s \in NotificationSeverity, c \in NotifInstants :
       should_notify(last_notifications, q, s, c) <=> ~LastRecordedIs(q, s, c)
  /\ asked # None =>
       LET a == Unwrap(asked)
       IN /\ a.answer <=> ~LastRecordedIs(a.quota, a.severity, a.reset_time)
          /\ RecordsOf(a.quota, a.severity) = <<>> => a.answer

\* an instant r, then a later instant recorded for the same key; asking for
\* r again answers true
Wit_C1_Dedup ==
  /\ Len(RecordsOf("Session", "Approaching")) = 2
  /\ RecordsOf("Session", "Approaching")[1].reset_time = NowBase + Secs(7200)
  /\ LastRecordedIs("Session", "Approaching", NowBase + Secs(7200 + SessionSecs))
  /\ asked # None
  /\ Unwrap(asked).quota = "Session"
  /\ Unwrap(asked).severity = "Approaching"
  /\ Unwrap(asked).reset_time = NowBase + Secs(7200)
  /\ Unwrap(asked).answer


\* ------------------------------------------------------------------------
\* Claims on the polling cycles (specification Spec)
\* ------------------------------------------------------------------------
\* C2, as stated: while a quota stays in one reset period and at or above a
\* notification threshold, at most one notification is shown for that
\* (quota, severity, reset period) over all polling cycles.
Orig_C2_OncePerPeriod ==
  \A k \in DOMAIN emitted : emitted[k] <= 1

\* the events check_notifications returned for one tool's quota
EventsOf(tool, quota) ==
  SelectSeq(cycle.notified[tool], LAMBDA e : e.quota_type = quota)

\* C3: in one cycle check_notifications returns at most one event per quota:
\* with projected >= the over-budget threshold only an OverBudget event is
\* possible (none when it is suppressed), else with projected >= the
\* approaching threshold only an Approaching event, else no event.
Thm_C3_OneEventPerQuota ==
  cycle.pc = "update" =>
    \A t \in Tools, q \in QuotaType :
      LET evs == EventsOf(t, q)
          pr == cycle_projection(cycle, t, q)
          st == cycle.current_settings
      IN /\ Len(evs) <= 1
         /\ ~IsSome(pr) => evs = <<>>
         /\ IsSome(pr) =>
              LET pp == Unwrap(pr).projected_percent
              IN IF F32Ge(pp, F32(st.notify_over_budget_percent))
                   THEN \A i \in 1..Len(evs) : evs[i].severity = "OverBudget"
                 ELSE IF F32Ge(pp, F32(st.notify_approaching_percent))
                   THEN \A i \in 1..Len(evs) : evs[i].severity = "Approaching"
                 ELSE evs = <<>>

\* a quota over both thresholds whose OverBudget event of an earlier cycle
\* was shown and whose event of this cycle is suppressed: no event at all
Wit_C3_OneEventPerQuota ==
  /\ cycle.pc = "update"
  /\ cycle.current_settings.notifications_enabled
  /\ \E q \in QuotaType :
       LET pr == cycle_projection(cycle, "claude", q)
       IN /\ IsSome(pr)
          /\ F32Ge(Unwrap(pr).projected_percent,
                   F32(cycle.current_settings.notify_over_budget_percent))
          /\ F32Ge(Unwrap(pr).projected_percent,
                   F32(cycle.current_settings.notify_approaching_percent))
          /\ EventsOf("claude", q) = <<>>
          /\ <<"claude", q, "OverBudget", cycle.events["claude"][q]>>
               \in DOMAIN emitted


\* ------------------------------------------------------------------------
\* Specification SpecReset: parse_reset_time and calculate_all_projections
\* ------------------------------------------------------------------------
\* time-only strings whose occurrence today is an hour back, exactly at the
\* first clock value, an hour ahead
TimeStrings ==
  {[form |-> "time", today |-> NowBase + Secs(d)] : d \in {-3600, 0, 3600}}

\* date strings in the local timezone: the occurrence of the current year an
\* hour back, at the first clock value, 18 minutes ahead; 29 February has no
\* occurrence in the next year
DateStrings ==
  {[form |-> "date", this_year |-> NowBase + Secs(d),
    next_year |-> Some(NowBase + Secs(d) + Secs(365 * DaySecs))] :
     d \in {-3600, 0, 1080}}
  \cup {[form |-> "date", this_year |-> NowBase - Secs(3600),
         next_year |-> None]}

\* "Jan 1 at 3am (<tz>)" read on 31 December, 20:00 local time, the named
\* timezone being 9 hours ahead of the local one: there it is 1 January,
\* 05:00 of the next year, while now.year() is still the local year
EastReset ==
  [form |-> "date",
   this_year |-> NowBase - Secs(7200) - Secs(365 * DaySecs),
   next_year |-> Some(NowBase - Secs(7200))]

ParseInputs ==
  [fn : {"parse_reset_time"},
   reset_str : TimeStrings \cup DateStrings \cup {EastReset, BadReset},
   now : {NowBase + t : t \in 0..MaxNowTicks}]

\* one quota of a reading: percentage and reset string
QuotaSlots ==
  {<<None, None>>, <<None, Some(SessionReset)>>, <<Some(50), None>>,
   <<Some(50), Some(BadReset)>>, <<Some(50), Some(SessionReset)>>,
   <<Some(110), Some(WeekReset)>>}

AllInputs ==
  {[fn |-> "calculate_all_projections",
    usage |-> UsageData(s[1], s[2], a[1], a[2], n[1], n[2],
                        None, None, None, None),
    thr |-> <<85, 115>>, now |-> NowBase + t] :
     s \in QuotaSlots, a \in QuotaSlots, n \in QuotaSlots, t \in 0..MaxNowTicks}

\* variant: zero seconds left also count as expired
format_duration_secs_nonpositive(total_seconds) ==
  IF total_seconds <= 0 THEN "now"
  ELSE LET days == total_seconds \div DaySecs
           hours == (total_seconds % DaySecs) \div 3600
           minutes == (total_seconds % 3600) \div 60
       IN IF days > 0 THEN ToString(days) \o "d " \o ToString(hours) \o "h"
          ELSE IF hours > 0
            THEN ToString(hours) \o "h " \o ToString(minutes) \o "m"
          ELSE ToString(minutes) \o "m"

\* format_duration_secs(total_seconds: i64) -> String; / and % act on a
\* non-negative i64 here
format_duration_secs(total_seconds) ==
  IF total_seconds < 0 THEN "now"
  ELSE LET days == total_seconds \div DaySecs
           hours == (total_seconds % DaySecs) \div 3600
           minutes == (total_seconds % 3600) \div 60
       IN IF days > 0 THEN ToString(days) \o "d " \o ToString(hours) \o "h"
          ELSE IF hours > 0
            THEN ToString(hours) \o "h " \o ToString(minutes) \o "m"
          ELSE ToString(minutes) \o "m"

\* durations in seconds: expired ones, and every mix of days, hours, minutes
\* and odd seconds around the unit borders
FormatInputs ==
  {[fn |-> "format_duration_secs", total_seconds |-> n] :
     n \in {-86400, -10, -1}
        \cup {d * 86400 + h * 3600 + m * 60 + e :
                d \in {0, 1, 2}, h \in {0, 1, 23}, m \in {0, 1, 5, 59},
                e \in {0, 59}}}

InitReset ==
  /\ proj_in \in {Some(a) : a \in ParseInputs \cup AllInputs \cup FormatInputs}
  /\ proj_out = None
  /\ st_in = None /\ st_out = None
  /\ record_log = <<>> /\ asked = None
  /\ CycleQuiet

\* parse_reset_time(reset_str)
ParseApply ==
  /\ proj_out = None
  /\ Unwrap(proj_in).fn = "parse_reset_time"
  /\ proj_out' = Some(parse_reset_time(Unwrap(proj_in).reset_str,
                                       Unwrap(proj_in).now))
  /\ UNCHANGED <<proj_in, statusVars, notifVars, cycleVars, driverVars, storeVars, threadVars,
                 last_notifications>>

\* calculate_all_projections(usage, threshold_under_budget, threshold_over_budget)
AllApply ==
  /\ proj_out = None
  /\ Unwrap(proj_in).fn = "calculate_all_projections"
  /\ proj_out' = Some(calculate_all_projections(
                        Unwrap(proj_in).usage, F32(Unwrap(proj_in).thr[1]),
                        F32(Unwrap(proj_in).thr[2]), Unwrap(proj_in).now))
  /\ UNCHANGED <<proj_in, statusVars, notifVars, cycleVars, driverVars, storeVars, threadVars,
                 last_notifications>>

\* format_duration_secs(total_seconds)
FormatApply ==
  /\ proj_out = None
  /\ Unwrap(proj_in).fn = "format_duration_secs"
  /\ proj_out' = Some(format_duration_secs(Unwrap(proj_in).total_seconds))
  /\ UNCHANGED <<proj_in, statusVars, notifVars, cycleVars, driverVars, storeVars, threadVars,
                 last_notifications>>

NextReset == ParseApply \/ AllApply \/ FormatApply

SpecReset == InitReset /\ [][NextReset]_vars

\* a parse_reset_time call has returned
Parsed == proj_out # None /\ Unwrap(proj_in).fn = "parse_reset_time"

\* C11, its last sentence: an instant parse_reset_time returns is never
\* before the instant of resolution.
Orig_C11_NeverPast ==
  (Parsed /\ IsSome(Unwrap(proj_out))) =>
    Unwrap(Unwrap(proj_out)) >= Unwrap(proj_in).now


\* a calculate_all_projections call has returned
AllApplied ==
  proj_out # None /\ Unwrap(proj_in).fn = "calculate_all_projections"

\* the three quotas of a reading: projection field, percentage field, reset
\* field and period
QuotaFields ==
  {<<"session", "current_session_percent", "current_session_reset",
     "Session">>,
   <<"week_all", "current_week_all_models_percent",
     "current_week_all_models_reset", "Weekly">>,
   <<"week_sonnet", "current_week_sonnet_percent",
     "current_week_sonnet_reset", "Weekly">>}

\* the reading with every quota but q removed
OnlyQuota(usage, q) ==
  [f \in DOMAIN usage |->
     IF f \in {q[2], q[3]} THEN usage[f]
     ELSE IF f = "extra_usage_enabled" THEN usage[f] ELSE None]

\* the reset string of quota q resolves
Resolves(usage, q, now) ==
  /\ IsSome(usage[q[3]])
  /\ IsSome(parse_reset_time(Unwrap(usage[q[3]]), now))

\* C12: calculate_all_projections yields a projection for a quota iff the
\* reading holds a percentage and a reset string that resolves; the
\* projection is that of this percentage and instant, and a quota without
\* projection leaves the other quotas' projections as they are without it.
Thm_C12_PerQuota ==
  AllApplied =>
    LET a == Unwrap(proj_in)
        out == Unwrap(proj_out)
    IN \A q \in QuotaFields :
         /\ IsSome(out[q[1]]) <=>
              (IsSome(a.usage[q[2]]) /\ Resolves(a.usage, q, a.now))
         /\ IsSome(out[q[1]]) =>
              Unwrap(out[q[1]]) =
                calculate_projection(
                  Unwrap(a.usage[q[2]]),
                  Unwrap(parse_reset_time(Unwrap(a.usage[q[3]]), a.now)),
                  q[4], F32(a.thr[1]), F32(a.thr[2]), a.now)
         /\ out[q[1]] =
              calculate_all_projections(OnlyQuota(a.usage, q), F32(a.thr[1]),
                                        F32(a.thr[2]), a.now)[q[1]]

\* a session whose reset string does not resolve and a week without reset
\* line beside a week that is projected
Wit_C12_PerQuota ==
  /\ AllApplied
  /\ Unwrap(proj_in).usage.current_session_percent = Some(50)
  /\ Unwrap(proj_in).usage.current_session_reset = Some(BadReset)
  /\ Unwrap(proj_in).usage.current_week_all_models_percent = Some(50)
  /\ Unwrap(proj_in).usage.current_week_all_models_reset = None
  /\ Unwrap(proj_out).session = None
  /\ Unwrap(proj_out).week_all = None
  /\ IsSome(Unwrap(proj_out).week_sonnet)
  /\ Unwrap(Unwrap(proj_out).week_sonnet).status = "OnTrack"

\* a format_duration_secs call has returned
Formatted ==
  proj_out # None /\ Unwrap(proj_in).fn = "format_duration_secs"

\* C25: format_duration_secs(n) is "now" for n < 0; for n >= 0, with
\* d = n div 86400, h = (n mod 86400) div 3600, m = (n mod 3600) div 60, it
\* is "Dd Hh" when d > 0, else "Hh Mm" when h > 0, else "Mm".
Thm_C25_FormatDuration ==
  Formatted =>
    LET n == Unwrap(proj_in).total_seconds
        out == Unwrap(proj_out)
        d == n \div 86400
        h == (n % 86400) \div 3600
        m == (n % 3600) \div 60
    IN /\ n < 0 => out = "now"
       /\ (n >= 0 /\ d > 0) => out = ToString(d) \o "d " \o ToString(h) \o "h"
       /\ (n >= 0 /\ d = 0 /\ h > 0) =>
            out = ToString(h) \o "h " \o ToString(m) \o "m"
       /\ (n >= 0 /\ d = 0 /\ h = 0) => out = ToString(m) \o "m"
       /\ n \in 0..59 => out = "0m"
       /\ n = 3600 => out = "1h 0m"
       /\ n = 86400 + 3600 => out = "1d 1h"
       /\ n = 300 => out = "5m"

\* 59 seconds left are not expired: "0m"
Wit_C25_FormatDuration ==
  /\ Formatted
  /\ Unwrap(proj_in).total_seconds = 59
  /\ Unwrap(proj_out) = "0m"


\* str::to_lowercase on the phrases and labels of the inputs
to_lowercase(str) ==
  CASE str = "CURSOR POSITION COULD NOT BE READ" ->
         "cursor position could not be read"
    [] str = "Error: Cursor position could not be read" ->
         "error: cursor position could not be read"
    [] str = "Cursor position was read" -> "cursor position was read"
    [] str = "Weekly limit" -> "weekly limit"
    [] str = "WEEKLY LIMIT" -> "weekly limit"
    [] str = "Current session" -> "current session"
    [] str = "Current week (all models)" -> "current week (all models)"
    [] str = "CURRENT WEEK (ALL MODELS)" -> "current week (all models)"
    [] str = "Current week (Sonnet only)" -> "current week (sonnet only)"
    [] str = "Current week" -> "current week"
    [] str = "Extra usage not enabled" -> "extra usage not enabled"
    [] str = "Press Enter to continue" -> "press enter to continue"
    [] OTHER -> str

\* ------------------------------------------------------------------------
\* Specification SpecDriver: run_codex_status and run_claude_usage
\* ------------------------------------------------------------------------
\* A chunk of child output is abstracted to the marker texts its stripped
\* bytes hold, to whether it holds the screen-clear sequence "[2J", and to
\* the bytes of a terminal query it holds (esc: "ESC[6n", "ESC[c", or a part
\* of one); a text is a sequence of chunks.
Chunk(marks, clear) == [marks |-> marks, clear |-> clear, esc |-> ""]

\* a chunk that holds only bytes of a terminal query
Query(esc) == [marks |-> {}, clear |-> FALSE, esc |-> esc]

\* what a child writes in one call, by the kind of session: for codex a
\* report session (ready prompt, full report, two parts of it, a screen
\* clear), a prompt session (ready prompt, approval prompt, full report) or
\* a query session (cursor-position query whole and split in two, device
\* attributes query); for claude the loading screen, a screen clear, the
\* full report and two parts of it
FamilyChunks(tool, family) ==
  IF tool = "codex" /\ family = "report"
    THEN {Chunk({"context left"}, FALSE),
          Chunk({"5h limit", "Weekly limit", "% left"}, FALSE),
          Chunk({"5h limit", "% left"}, FALSE),
          Chunk({"Weekly limit"}, FALSE),
          Chunk({}, TRUE)}
  ELSE IF tool = "codex" /\ family = "prompt"
    THEN {Chunk({"context left"}, FALSE),
          Chunk({"Press Enter to continue"}, FALSE),
          Chunk({"5h limit", "Weekly limit", "% left"}, FALSE)}
  ELSE IF tool = "codex" /\ family = "query"
    THEN {Query("ESC[6n"), Query("ESC["), Query("6n"), Query("ESC[c")}
  ELSE IF tool = "claude"
    THEN {Chunk({"Loading usage data"}, FALSE),
          Chunk({}, TRUE),
          Chunk({"% used", "Current session", "Extra usage"}, FALSE),
          Chunk({"% used", "Current session"}, FALSE),
          Chunk({"Extra usage"}, FALSE)}
  ELSE {}

Families(tool) ==
  IF tool = "codex" THEN {"report", "prompt", "query"} ELSE {"report"}

ChunkKinds(tool) == UNION {FamilyChunks(tool, f) : f \in Families(tool)}

\* strip_ansi_escapes::strip(&current_screen), as the marker texts that
\* clean.contains(..) finds in it
clean(screen) == UNION {screen[i].marks : i \in 1..Len(screen)}

\* let timeout = Duration::from_secs(45) / from_secs(30), in polls
timeout_of(tool) ==
  IF tool = "codex" THEN CodexTimeoutPolls ELSE ClaudeTimeoutPolls

\* start.elapsed() > timeout
deadline_passed(d) == d.elapsed > timeout_of(d.tool)

\* variant: rx.recv(), which waits until a message arrives
recv_blocking(d) == d.chan # <<>>

\* rx.recv_timeout(Duration::from_millis(100)) returns after 100 ms at most
recv_returns(d) == TRUE

\* reader.read(&mut buffer) on the PTY master returns once bytes are
\* there or the stream has ended or failed (codex.rs calls it the blocking
\* reader)
read_returns(d) == d.pty # <<>> \/ d.stream # "open"

\* what reader.read gives when it returns: Err(e) on a failed stream, else
\* the bytes there are, else Ok(0)
read_result(d) ==
  IF d.stream = "error" THEN "Err"
  ELSE IF d.pty # <<>> THEN "Ok(n)"
  ELSE "Ok(0)"

\* variant: a message is put in front of the waiting ones
send_front(chan, msg) == <<msg>> \o chan

\* tx.send(msg) on the mpsc channel
send(chan, msg) == Append(chan, msg)

\* break
break_loop(d, cause) == [d EXCEPT !.pc = "kill", !.cause = cause]

\* what ended the stream: Ok(0) or Err(e) of reader.read
stream_end(d) == IF d.stream = "error" THEN "read_error" ELSE "eof"

\* variant: the kill is skipped when the report was matched
after_loop_unless_match(d) ==
  [d EXCEPT !.pc = "done", !.result = "Ok", !.returned = Some(d.output),
            !.kill_issued = d.cause # "match",
            !.child = IF @ = "running" /\ d.cause # "match" THEN "killed"
                      ELSE @]

\* let _ = child.kill(); Ok(output)
after_loop(d) ==
  [d EXCEPT !.pc = "done", !.result = "Ok", !.returned = Some(d.output),
            !.kill_issued = TRUE,
            !.child = IF @ = "running" THEN "killed" ELSE @]

\* the controller is in its loop
InLoop(d) == d.pc \in {"check", "recv", "read", "post"}

nonDriverVars ==
  <<projVars, statusVars, notifVars, cycleVars, storeVars, threadVars, last_notifications>>

InitDriver ==
  /\ driver \in {[DriverIdle EXCEPT !.tool = t, !.family = f] :
                   t \in Tools, f \in {"report", "prompt", "query"}}
  /\ driver.family \in Families(driver.tool)
  /\ UnitIdle
  /\ clock = NowBase /\ cycle = CycleIdle /\ tray_icon = "Unknown"
  /\ timer_due = TRUE /\ emitted = <<>>
  /\ store = None
  /\ threads = ThreadsIdle
  /\ app_state = AppState_new(Settings_default)
  /\ last_notifications = NotificationState_new

\* openpty, spawn_command, take_writer / try_clone_reader: each may fail (?);
\* codex then starts its reader thread
DriverStart(outcome) ==
  /\ driver.pc = "idle"
  /\ driver.tool \in Tools
  /\ driver' =
       IF outcome \in {"openpty", "spawn"}
         THEN [driver EXCEPT !.pc = "done", !.result = "Err"]
       ELSE IF outcome = "reader"
         THEN [driver EXCEPT !.pc = "done", !.result = "Err",
                             !.child = "running", !.stream = "open"]
       ELSE [driver EXCEPT !.pc = "check", !.child = "running",
                           !.stream = "open",
                           !.thread = IF driver.tool = "codex" THEN "reading"
                                      ELSE "none"]
  /\ UNCHANGED nonDriverVars

\* loop head: if start.elapsed() > timeout { break; }
DriverCheck ==
  /\ driver.pc = "check"
  /\ driver' =
       IF deadline_passed(driver) THEN break_loop(driver, "deadline")
       ELSE [driver EXCEPT !.pc = IF driver.tool = "codex" THEN "recv"
                                  ELSE "read"]
  /\ UNCHANGED nonDriverVars

\* the ready-for-input markers of codex.rs, of which the chunks show one
ReadyMarkers ==
  {"context left", "Tip: Start a fresh idea",
   "Tip: You can run any shell commands", "Tip: Paste an image",
   "Tip: Type / to open the command popup"}

\* variant: the ready test without !sent_status
should_send_status_again(d, shown) == shown \cap ReadyMarkers # {}

\* !sent_status && (clean.contains("context left") || ..)
should_send_status(d, shown) ==
  ~d.sent_status /\ shown \cap ReadyMarkers # {}

\* clean.to_lowercase().contains("press enter to continue")
shows_approval(shown) ==
  \E m \in shown : to_lowercase(m) = "press enter to continue"

\* has_five && has_week && has_left
codex_report(shown) ==
  {"5h limit", "Weekly limit", "% left"} \subseteq shown

\* codex, Ok(Some(bytes)): append the chunk to output and current_screen,
\* answer a cursor-position or device-attributes query the chunk holds,
\* send /status once the prompt is ready, send a newline while the approval
\* prompt is on the screen, break on the report with output = clean
codex_chunk(d, c) ==
  LET d1 == [d EXCEPT !.received = Append(@, c),
                      !.output = Append(@, c),
                      !.current_screen = Append(@, c),
                      !.seen_since = @ \/ (d.sent_status /\ ~d.resent_command)]
      shown == clean(d1.current_screen)
      w1 == IF c.esc = "ESC[6n" THEN <<"cursor report">> ELSE <<>>
      w2 == IF c.esc = "ESC[c" THEN <<"attributes report">> ELSE <<>>
      w3 == IF should_send_status(d1, shown) THEN <<"status">> ELSE <<>>
      w4 == IF shows_approval(shown) THEN <<"newline">> ELSE <<>>
      d2 == [d1 EXCEPT
               !.writes = @ \o w1 \o w2 \o w3 \o w4,
               !.sent_status = @ \/ w3 # <<>>,
               !.sent_at = IF w3 # <<>> THEN Some(d.elapsed) ELSE @]
  IN IF codex_report(shown)
       THEN break_loop([d2 EXCEPT !.output = d2.current_screen], "match")
     ELSE [d2 EXCEPT !.pc = "post"]

\* codex: match rx.recv_timeout(..)
CodexRecv ==
  /\ driver.pc = "recv"
  /\ recv_returns(driver)
  /\ driver' =
       IF driver.chan = <<>>
         THEN [driver EXCEPT
                 !.pc = "post",
                 !.elapsed = IF @ <= timeout_of(driver.tool) THEN @ + 1 ELSE @]
       ELSE LET msg == Head(driver.chan)
                d1 == [driver EXCEPT !.chan = Tail(@)]
            IN IF IsSome(msg) THEN codex_chunk(d1, Unwrap(msg))
               ELSE break_loop(d1, stream_end(d1))
  /\ UNCHANGED nonDriverVars

\* sent_status && !resent_command && start.elapsed() > Duration::from_secs(10)
resend_due(d) ==
  d.sent_status /\ ~d.resent_command /\ d.elapsed > ResendPolls

\* codex: re-send /status after 10 s; if let Ok(Some(_)) = child.try_wait()
CodexPost ==
  /\ driver.pc = "post"
  /\ driver.tool = "codex"
  /\ LET d1 == IF resend_due(driver)
                 THEN [driver EXCEPT !.resent_command = TRUE,
                                     !.writes = Append(@, "resend"),
                                     !.resent_at = Some(driver.elapsed)]
               ELSE driver
     IN driver' = IF d1.child # "running" THEN break_loop(d1, "exit")
                  ELSE [d1 EXCEPT !.pc = "check"]
  /\ UNCHANGED nonDriverVars

\* codex, the reader thread: reader.read, then tx.send(Some(bytes)), or
\* tx.send(None) and the end of the thread on Ok(0) and on Err
ReaderThread ==
  /\ driver.thread = "reading"
  /\ read_returns(driver)
  /\ driver' =
       IF read_result(driver) = "Ok(n)"
         THEN [driver EXCEPT !.pty = Tail(@),
                             !.chan = send(@, Some(Head(driver.pty)))]
       ELSE [driver EXCEPT !.chan = send(@, None), !.thread = "done"]
  /\ UNCHANGED nonDriverVars

\* saw_loading && has_percent && has_current_session && has_extra_usage
\* && !has_loading
claude_report(saw_loading, shown) ==
  /\ saw_loading
  /\ {"% used", "Current session", "Extra usage"} \subseteq shown
  /\ "Loading usage data" \notin shown

\* claude, Ok(n): append the chunk to output and current_screen, restart
\* current_screen at a chunk with a screen clear, note the loading screen,
\* break on the report with output = current_screen
claude_chunk(d, c) ==
  LET screen == IF c.clear THEN <<c>> ELSE Append(d.current_screen, c)
      shown == clean(screen)
      d1 == [d EXCEPT !.received = Append(@, c),
                      !.output = Append(@, c),
                      !.current_screen = screen,
                      !.saw_loading = @ \/ "Loading usage data" \in shown]
  IN IF claude_report(d1.saw_loading, shown)
       THEN break_loop([d1 EXCEPT !.output = screen], "match")
     ELSE [d1 EXCEPT !.pc = "post"]

\* claude: match reader.read(&mut buffer)
ClaudeRead ==
  /\ driver.pc = "read"
  /\ read_returns(driver)
  /\ driver' =
       IF read_result(driver) = "Ok(n)"
         THEN claude_chunk([driver EXCEPT !.pty = Tail(@)], Head(driver.pty))
       ELSE break_loop(driver, stream_end(driver))
  /\ UNCHANGED nonDriverVars

\* variant: the loop breaks at once when the exit is seen
drain_nothing(d) == d

\* loop { match reader.read { Ok(0) => break, Ok(n) => push, Err => break } }
\* after the exit was seen
drain(d) ==
  IF d.stream = "error" THEN d
  ELSE [d EXCEPT !.output = @ \o d.pty, !.received = @ \o d.pty,
                 !.pty = <<>>]

\* claude: if the process exited, read what is left into output and break
ClaudePost ==
  /\ driver.pc = "post"
  /\ driver.tool = "claude"
  /\ driver' = IF driver.child # "running"
                 THEN break_loop(drain(driver), "exit")
               ELSE [driver EXCEPT !.pc = "check"]
  /\ UNCHANGED nonDriverVars

\* after the loop: kill the child and return the text
DriverKill ==
  /\ driver.pc = "kill"
  /\ driver' = after_loop(driver)
  /\ UNCHANGED nonDriverVars

\* the child writes a chunk to its side of the PTY
ChildEmit(kind) ==
  /\ InLoop(driver)
  /\ driver.child = "running"
  /\ driver.stream = "open"
  /\ Len(driver.pty) < MaxChan
  /\ Len(driver.written) < MaxChunks
  /\ driver' = [driver EXCEPT !.pty = Append(@, kind),
                              !.written = Append(@, kind)]
  /\ UNCHANGED nonDriverVars

\* the child exits and the stream ends behind what it wrote
ChildExit ==
  /\ InLoop(driver)
  /\ driver.child = "running"
  /\ driver' = [driver EXCEPT
                  !.child = "exited",
                  !.stream = IF @ = "open" THEN "eof" ELSE @]
  /\ UNCHANGED nonDriverVars

\* reads of the PTY master fail from now on
ReadError ==
  /\ InLoop(driver)
  /\ driver.stream = "open"
  /\ driver' = [driver EXCEPT !.stream = "error"]
  /\ UNCHANGED nonDriverVars

\* time passes while the controller is in its loop
DriverTick ==
  /\ InLoop(driver)
  /\ driver.elapsed <= timeout_of(driver.tool)
  /\ driver' = [driver EXCEPT !.elapsed = @ + 1]
  /\ UNCHANGED nonDriverVars

ControllerStep ==
  \/ \E o \in {"openpty", "spawn", "reader", "ok"} : DriverStart(o)
  \/ DriverCheck
  \/ CodexRecv
  \/ CodexPost
  \/ ClaudeRead
  \/ ClaudePost
  \/ DriverKill

NextDriver ==
  \/ ControllerStep
  \/ ReaderThread
  \/ \E k \in FamilyChunks(driver.tool, driver.family) : ChildEmit(k)
  \/ ChildExit
  \/ ReadError
  \/ DriverTick

\* the controller thread is scheduled and time passes; the child owes nothing
SpecDriver ==
  InitDriver /\ [][NextDriver]_vars
    /\ WF_vars(ControllerStep) /\ WF_vars(DriverTick)

\* C13: every run_codex_status call eventually returns, whatever the child
\* does.
Thm_C13_CodexReturns ==
  (driver.tool = "codex") => <>(driver.pc = "done")

\* the call returned at the deadline with the child alive and still writing
Wit_C13_CodexReturns ==
  /\ driver.tool = "codex"
  /\ driver.pc = "done"
  /\ driver.cause = "deadline"
  /\ driver.child = "killed"
  /\ driver.chan # <<>>

\* C14, as stated: every run_claude_usage call eventually returns, also when
\* the child stays alive and writes nothing more.
Orig_C14_ClaudeReturns ==
  (driver.tool = "claude") => <>(driver.pc = "done")

\* C15: a driver call that returns text has issued the kill of its child,
\* and the child is not left running.
Thm_C15_KillBeforeReturn ==
  (driver.pc = "done" /\ driver.result = "Ok") =>
    (driver.kill_issued /\ driver.child # "running")

\* the report was matched while the child was running: killed, text returned
Wit_C15_KillBeforeReturn ==
  /\ driver.pc = "done"
  /\ driver.result = "Ok"
  /\ driver.cause = "match"
  /\ driver.child = "killed"

\* C22, as stated: a driver call whose stream failed with a read error
\* returns an error, not a captured text.
Orig_C22_ReadErrorIsError ==
  (driver.pc = "done" /\ driver.cause = "read_error") =>
    driver.result = "Err"

\* the chunks of a text that show a ready-for-input marker
ReadyChunks(text) ==
  {i \in 1..Len(text) : text[i].marks \cap ReadyMarkers # {}}

\* C27: in one Codex call /status is first written at most once, and only
\* with a ready-for-input marker on the stripped current screen; later
\* chunks that show a ready marker cause no other first-time write.
Thm_C27_StatusSentOnce ==
  driver.tool = "codex" =>
    /\ Cardinality({i \in 1..Len(driver.writes) :
                      driver.writes[i] = "status"}) <= 1
    /\ driver.sent_status <=>
         (\E i \in 1..Len(driver.writes) : driver.writes[i] = "status")
    /\ driver.sent_status => ReadyChunks(driver.received) # {}
    /\ \A i \in 1..Len(driver.writes) :
         driver.writes[i] = "resend" =>
           \E j \in 1..(i - 1) : driver.writes[j] = "status"
    /\ (InLoop(driver) /\ ReadyChunks(driver.current_screen) # {}) =>
         driver.sent_status

\* the prompt was shown twice and both chunks were received: one write
Wit_C27_StatusSentOnce ==
  /\ driver.tool = "codex"
  /\ Cardinality(ReadyChunks(driver.received)) = 2
  /\ driver.elapsed <= ResendPolls
  /\ driver.writes = <<"status">>

\* C28, as stated: /status is resent at most once, only after its first
\* submission, and only when the grace period has passed since that
\* submission with no chunk received in between.
Orig_C28_ResendAfterGrace ==
  (driver.tool = "codex" /\ driver.resent_command) =>
    /\ Cardinality({i \in 1..Len(driver.writes) :
                      driver.writes[i] \in {"status", "resend"}}) <= 2
    /\ driver.sent_status
    /\ Unwrap(driver.resent_at) - Unwrap(driver.sent_at) > ResendPolls
    /\ ~driver.seen_since

\* the stripped screen shows the full report and no loading marker
FullReport(tool, shown) ==
  IF tool = "codex" THEN {"5h limit", "Weekly limit", "% left"} \subseteq shown
  ELSE /\ {"% used", "Current session", "Extra usage"} \subseteq shown
       /\ "Loading usage data" \notin shown

\* C29, as stated: a driver leaves its loop on the first chunk after which
\* the stripped current screen shows the full report and no loading marker,
\* whatever earlier screens showed, and never leaves it on a match while
\* the loading marker is on the current screen.
Orig_C29_ReturnOnReport ==
  /\ InLoop(driver) =>
       ~FullReport(driver.tool, clean(driver.current_screen))
  /\ driver.cause = "match" =>
       "Loading usage data" \notin clean(driver.current_screen)

\* the part of a text from its last screen clear on
RECURSIVE SinceClear(_)
SinceClear(text) ==
  IF text = <<>> THEN <<>>
  ELSE LET rest == SinceClear(Tail(text))
       IN IF \E i \in 2..Len(text) : text[i].clear THEN rest
          ELSE text

\* C30, as stated: a chunk with a screen clear restarts the current-screen
\* view at that chunk; a text returned on a match is that view, holding
\* nothing from before the last clear, and markers from before it do not
\* count; until completion the raw output only grows by the chunks read.
Orig_C30_ScreenClear ==
  /\ InLoop(driver) =>
       /\ driver.output = driver.received
       /\ driver.current_screen = SinceClear(driver.received)
  /\ (driver.pc = "done" /\ driver.cause = "match") =>
       /\ driver.returned = Some(SinceClear(driver.received))
       /\ FullReport(driver.tool, clean(SinceClear(driver.received)))

\* C31: when a call ends because the child exited (the exit was seen by
\* try_wait, or the end of the stream was read), the text returned holds
\* every chunk the child wrote, in order.
Orig_C31_ExitDrains ==
  (/\ driver.pc = "done"
   /\ driver.cause \in {"exit", "eof"}
   /\ driver.stream # "error") =>
    driver.returned = Some(driver.written)

\* the chunks in the messages of the channel
RECURSIVE DataOf(_)
DataOf(chan) ==
  IF chan = <<>> THEN <<>>
  ELSE IF IsSome(Head(chan)) THEN <<Unwrap(Head(chan))>> \o DataOf(Tail(chan))
  ELSE DataOf(Tail(chan))

\* C32: in the Codex driver the chunks reach the controller through the
\* channel in the order the child wrote them, each once; the raw output is
\* their concatenation; the sentinel is the last message of the reader
\* thread and is received after every chunk the thread read.
Thm_C32_ChannelFifo ==
  driver.tool = "codex" =>
    /\ driver.received \o DataOf(driver.chan) \o driver.pty = driver.written
    /\ InLoop(driver) => driver.output = driver.received
    /\ (driver.pc = "done" /\ driver.result = "Ok" /\ driver.cause # "match")
         => driver.returned = Some(driver.received)
    /\ \A i \in 1..Len(driver.chan) :
         driver.chan[i] = None => i = Len(driver.chan) /\ driver.thread = "done"
    /\ driver.thread = "done" /\ driver.cause \notin {"eof", "read_error"} =>
         driver.chan # <<>> /\ driver.chan[Len(driver.chan)] = None
    /\ driver.cause \in {"eof", "read_error"} =>
         /\ driver.thread = "done"
         /\ driver.chan = <<>>
         /\ driver.received \o driver.pty = driver.written

Wit_C32_ChannelFifo ==
  /\ driver.tool = "codex"
  /\ driver.pc = "done"
  /\ driver.cause = "eof"
  /\ Len(driver.received) = MaxChunks
  /\ driver.received[1] # driver.received[2]
  /\ driver.returned = Some(driver.written)

\* how many entries of a sequence are in a set
CountIn(seq, set) == Cardinality({i \in 1..Len(seq) : seq[i] \in set})

\* the chunks of a text that show the approval prompt
ApprovalChunks(text) ==
  {i \in 1..Len(text) : shows_approval(text[i].marks)}

\* C33: the Codex driver writes one newline for each approval prompt the
\* child shows; a later chunk that does not show the prompt causes none.
Orig_C33_OneNewlinePerPrompt ==
  driver.tool = "codex" =>
    CountIn(driver.writes, {"newline"})
      = Cardinality(ApprovalChunks(driver.received))

\* the cursor-position queries of a text: whole in one chunk, or the bytes
\* ESC [ at the end of one chunk and 6n at the start of the next
CursorQueries(text) ==
  {i \in 1..Len(text) :
     \/ text[i].esc = "ESC[6n"
     \/ text[i].esc = "6n" /\ i > 1 /\ text[i - 1].esc = "ESC["}

\* the device-attributes queries of a text
AttributeQueries(text) == {i \in 1..Len(text) : text[i].esc = "ESC[c"}

\* C34: the Codex driver writes one cursor-position report for each
\* cursor-position query and one device-attributes report for each
\* device-attributes query of the output it received, however the output is
\* split into chunks, and no report otherwise.
Orig_C34_QueriesAnswered ==
  driver.tool = "codex" =>
    /\ CountIn(driver.writes, {"cursor report"})
         = Cardinality(CursorQueries(driver.received))
    /\ CountIn(driver.writes, {"attributes report"})
         = Cardinality(AttributeQueries(driver.received))


\* ------------------------------------------------------------------------
\* Claims on failed fetches and failed deliveries (specification Spec)
\* ------------------------------------------------------------------------
\* the fetch result of a tool in the running cycle
UsageOf(c, t) == IF t = "claude" THEN c.claude_usage ELSE c.codex_usage

\* the projection of a tool in the running cycle
ProjectionOf(c, t) ==
  IF t = "claude" THEN c.projection_claude ELSE c.projection_codex

\* what AppState stores for a tool: reading and projections
StoredOf(a, t) ==
  IF t = "claude" THEN <<a.usage_claude, a.projection_claude>>
  ELSE <<a.usage_codex, a.projection_codex>>

OtherTool(t) == IF t = "claude" THEN "codex" ELSE "claude"

\* the steps of fetch_and_update
FetchStep == cycle.pc = "fetch" /\ cycle'.pc # "fetch"
NotifyStep == cycle.pc = "notify" /\ cycle'.pc = "update"
UpdateStep == cycle.pc = "update" /\ cycle'.pc = "idle"

\* C16, as stated: after a cycle in which a tool's fetch failed, what
\* AppState stores for that tool (reading and projections) is what it stored
\* before, whatever the other tool's fetch did.
Orig_C16_FailedToolRetained ==
  [][\A t \in Tools :
       (UpdateStep /\ ~IsOk(UsageOf(cycle, t))) =>
         StoredOf(app_state', t) = StoredOf(app_state, t)]_vars

\* C17: when exactly one tool's fetch fails the cycle goes on: the other
\* tool's projections are computed from its reading of this cycle, the
\* combined status is its worst status, the notifications checked are those
\* of its projections, and its reading and projections are stored.
Thm_C17_OtherToolUnaffected ==
  [][\A t \in Tools :
       /\ (FetchStep /\ cycle'.pc = "idle") =>
            (cycle'.ended[t] = "error" /\ ~IsOk(UsageOf(cycle', t)))
       /\ (FetchStep /\ cycle'.pc = "notify" /\ IsOk(UsageOf(cycle', t))) =>
            /\ ProjectionOf(cycle', t) =
                 Some(calculate_all_projections(
                        OkVal(UsageOf(cycle', t)),
                        F32(cycle.current_settings.threshold_under_budget),
                        F32(cycle.current_settings.threshold_on_track), clock))
            /\ ~IsOk(UsageOf(cycle', OtherTool(t))) =>
                 cycle'.overall_status =
                   worst_status(Unwrap(ProjectionOf(cycle', t)))
       /\ (NotifyStep /\ cycle.current_settings.notifications_enabled
             /\ IsOk(UsageOf(cycle, t))
             /\ ~IsOk(UsageOf(cycle, OtherTool(t)))) =>
            /\ cycle'.notified[t] =
                 check_notifications(
                   Unwrap(ProjectionOf(cycle, t)), last_notifications,
                   F32(cycle.current_settings.notify_approaching_percent),
                   F32(cycle.current_settings.notify_over_budget_percent),
                   <<clock, clock, clock>>)
            /\ cycle'.notified[OtherTool(t)] = <<>>
       /\ (UpdateStep /\ IsOk(UsageOf(cycle, t))) =>
            /\ StoredOf(app_state', t) =
                 <<Some(OkVal(UsageOf(cycle, t))), ProjectionOf(cycle, t)>>
            /\ tray_icon' = cycle.overall_status]_vars

\* after a cycle in which the Codex fetch failed: the Claude reading is
\* stored, the icon shows its status and its notification was shown
Wit_C17_OtherToolUnaffected ==
  /\ cycle.pc = "idle"
  /\ app_state.usage_codex = None
  /\ app_state.usage_claude # None
  /\ IsSome(app_state.projection_claude)
  /\ IsSome(Unwrap(app_state.projection_claude).session)
  /\ tray_icon = "OverBudget"
  /\ emitted # <<>>

\* C18, as stated: a driver that ends on its deadline gives no successful
\* reading, and the cycle leaves what AppState stores for that tool as it was.
Orig_C18_DeadlineRetained ==
  [][\A t \in Tools :
       /\ (FetchStep /\ cycle'.ended[t] = "deadline") =>
            ~IsOk(UsageOf(cycle', t))
       /\ (UpdateStep /\ cycle.ended[t] = "deadline") =>
            StoredOf(app_state', t) = StoredOf(app_state, t)]_vars

\* C19, as stated: when the delivery of the cycle's events fails, no entry
\* of the deduplicator is inserted or overwritten.
Orig_C19_RecordAfterDelivery ==
  [][(NotifyStep /\ ~cycle'.delivered) =>
       last_notifications' = last_notifications]_vars


\* ------------------------------------------------------------------------
\* Specification SpecCodexParse: the parsers of codex.rs and usage.rs
\* ------------------------------------------------------------------------
\* A captured text is a sequence of lines. A line of a Codex text is a
\* phrase [kind |-> "phrase", text |-> ..] or a limit line
\* [kind |-> "limit", label |-> .., left |-> .., reset |-> ..], which reads
\* "<label>: [bar] <left>% left (resets <reset>)". A line of a Claude text is
\* [marker |-> .., pct |-> .., reset |-> ..]: the words it starts with (""
\* for none), the N of "N% used" on it and the text after "Resets" on it,
\* as Options.
\* str::trim on the reset texts of the inputs
trim(str) ==
  CASE str = "13:17 " -> "13:17"
    [] str = "7pm " -> "7pm"
    [] OTHER -> str

\* str::contains(needle) on the lower-cased first words of a Claude line
contains(str, needle) ==
  needle \in
    (CASE str = "current session" -> {"current session"}
       [] str = "current week (all models)" -> {"current week", "all models"}
       [] str = "current week (sonnet only)" -> {"current week", "sonnet"}
       [] str = "current week" -> {"current week"}
       [] str = "extra usage not enabled" ->
            {"extra usage", "not enabled", "enabled"}
       [] OTHER -> {})

\* str::contains(needle) for the needle of parse_codex_output
contains_cursor_failure(str) ==
  str \in {"cursor position could not be read",
           "error: cursor position could not be read"}

\* variant: the text is searched as it is, without to_lowercase
has_cursor_failure_exact(raw_output) ==
  \E i \in 1..Len(raw_output) :
    /\ raw_output[i].kind = "phrase"
    /\ contains_cursor_failure(raw_output[i].text)

\* raw_output.to_lowercase().contains("cursor position could not be read")
has_cursor_failure(raw_output) ==
  \E i \in 1..Len(raw_output) :
    /\ raw_output[i].kind = "phrase"
    /\ contains_cursor_failure(to_lowercase(raw_output[i].text))

\* Err(anyhow!(..)) with its message
ErrOf(e) == <<"Err", e>>

\* variant: a quota that is already set keeps its first values
codex_line_keep_first(data, l) ==
  LET label == IF l.kind = "limit" THEN to_lowercase(l.label) ELSE ""
  IN IF label = "5h limit" /\ data.codex_five_hour_left = None
       THEN [data EXCEPT !.codex_five_hour_left = Some(l.left),
                         !.codex_five_hour_reset = Some(trim(l.reset))]
     ELSE IF label = "weekly limit" /\ data.codex_week_left = None
       THEN [data EXCEPT !.codex_week_left = Some(l.left),
                         !.codex_week_reset = Some(trim(l.reset))]
     ELSE data

\* one match of line_re: label lower-cased, left_pct, reset trimmed
codex_line(data, l) ==
  LET label == IF l.kind = "limit" THEN to_lowercase(l.label) ELSE ""
  IN IF label = "5h limit"
       THEN [data EXCEPT !.codex_five_hour_left = Some(l.left),
                         !.codex_five_hour_reset = Some(trim(l.reset))]
     ELSE IF label = "weekly limit"
       THEN [data EXCEPT !.codex_week_left = Some(l.left),
                         !.codex_week_reset = Some(trim(l.reset))]
     ELSE data

\* for caps in line_re.captures_iter(raw_output) { match label { .. } }
RECURSIVE parse_codex_lines(_, _)
parse_codex_lines(lines, data) ==
  IF lines = <<>> THEN data
  ELSE parse_codex_lines(Tail(lines), codex_line(data, Head(lines)))

parse_codex_output(raw_output) ==
  IF has_cursor_failure(raw_output) THEN ErrOf("cursor position")
  ELSE Ok(parse_codex_lines(raw_output, UsageData_new))

\* let raw = run_codex_status(codex_path)?; parse_codex_output(&raw)
fetch_codex_usage(raw) ==
  IF ~IsOk(raw) THEN raw ELSE parse_codex_output(OkVal(raw))

\* the arm of the if / else if chain on line_lower.contains(..) a line takes
marker_arm(line_lower) ==
  IF contains(line_lower, "current session") THEN "session"
  ELSE IF contains(line_lower, "current week")
          /\ contains(line_lower, "all models") THEN "week_all"
  ELSE IF contains(line_lower, "current week")
          /\ contains(line_lower, "sonnet") THEN "week_sonnet"
  ELSE IF contains(line_lower, "extra usage") THEN "extra"
  ELSE "none"

\* current_section after the chain
section_of(line_lower, current_section) ==
  IF marker_arm(line_lower) = "none" THEN current_section
  ELSE marker_arm(line_lower)

\* variant: a marker takes effect from the next line on
usage_line_marker_late(acc, l) ==
  LET section == acc.current_section
      d == acc.data
      d2 == IF ~IsSome(l.pct) THEN d
            ELSE IF section = "session"
              THEN [d EXCEPT !.current_session_percent = l.pct]
            ELSE IF section = "week_all"
              THEN [d EXCEPT !.current_week_all_models_percent = l.pct]
            ELSE IF section = "week_sonnet"
              THEN [d EXCEPT !.current_week_sonnet_percent = l.pct]
            ELSE d
      reset_str == IF IsSome(l.reset) THEN Some(trim(Unwrap(l.reset)))
                   ELSE None
      d3 == IF ~IsSome(l.reset) THEN d2
            ELSE IF section = "session"
              THEN [d2 EXCEPT !.current_session_reset = reset_str]
            ELSE IF section = "week_all"
              THEN [d2 EXCEPT !.current_week_all_models_reset = reset_str]
            ELSE IF section = "week_sonnet"
              THEN [d2 EXCEPT !.current_week_sonnet_reset = reset_str]
            ELSE d2
  IN [current_section |->
        section_of(to_lowercase(l.marker), acc.current_section),
      data |-> d3]

\* the body of for line in lines.iter(): select the section, then take
\* the percentage and the reset text of the line into it
usage_line(acc, l) ==
  LET line_lower == to_lowercase(l.marker)
      section == section_of(line_lower, acc.current_section)
      d == acc.data
      d1 == IF marker_arm(line_lower) = "extra"
              THEN IF contains(line_lower, "not enabled")
                     THEN [d EXCEPT !.extra_usage_enabled = FALSE]
                   ELSE IF contains(line_lower, "enabled")
                     THEN [d EXCEPT !.extra_usage_enabled = TRUE]
                   ELSE d
            ELSE d
      d2 == IF ~IsSome(l.pct) THEN d1
            ELSE IF section = "session"
              THEN [d1 EXCEPT !.current_session_percent = l.pct]
            ELSE IF section = "week_all"
              THEN [d1 EXCEPT !.current_week_all_models_percent = l.pct]
            ELSE IF section = "week_sonnet"
              THEN [d1 EXCEPT !.current_week_sonnet_percent = l.pct]
            ELSE d1
      reset_str == IF IsSome(l.reset) THEN Some(trim(Unwrap(l.reset)))
                   ELSE None
      d3 == IF ~IsSome(l.reset) THEN d2
            ELSE IF section = "session"
              THEN [d2 EXCEPT !.current_session_reset = reset_str]
            ELSE IF section = "week_all"
              THEN [d2 EXCEPT !.current_week_all_models_reset = reset_str]
            ELSE IF section = "week_sonnet"
              THEN [d2 EXCEPT !.current_week_sonnet_reset = reset_str]
            ELSE d2
  IN [current_section |-> section, data |-> d3]

RECURSIVE parse_usage_lines(_, _)
parse_usage_lines(lines, acc) ==
  IF lines = <<>> THEN acc
  ELSE parse_usage_lines(Tail(lines), usage_line(acc, Head(lines)))

\* variant: a reading starts with every percentage at zero
parse_usage_output_zero(raw_output) ==
  Ok(parse_usage_lines(
       raw_output,
       [current_section |-> "",
        data |-> [UsageData_new EXCEPT
                    !.current_session_percent = Some(0),
                    !.current_week_all_models_percent = Some(0),
                    !.current_week_sonnet_percent = Some(0)]]).data)

\* parse_usage_output: the text is stripped of ANSI codes, split in lines
\* and folded from UsageData::new() with no section selected
parse_usage_output(raw_output) ==
  Ok(parse_usage_lines(raw_output,
                       [current_section |-> "", data |-> UsageData_new]).data)

\* let raw_output = run_claude_usage()?; parse_usage_output(&raw_output)?
fetch_usage(raw) ==
  IF ~IsOk(raw) THEN raw ELSE parse_usage_output(OkVal(raw))

CodexLines ==
  {[kind |-> "phrase", text |-> t] :
     t \in {"Tip: Paste an image", "Cursor position was read",
            "cursor position could not be read",
            "CURSOR POSITION COULD NOT BE READ",
            "Error: Cursor position could not be read"}}
  \cup {[kind |-> "limit", label |-> b, left |-> n[1], reset |-> n[2]] :
          b \in {"5h limit", "Weekly limit", "WEEKLY LIMIT"},
          n \in {<<99, "13:35">>, <<80, "13:17 ">>}}

ClaudeLines ==
  [marker : {"", "Current session", "CURRENT WEEK (ALL MODELS)",
             "Current week (Sonnet only)", "Current week",
             "Extra usage not enabled"},
   pct : {None, Some(3), Some(26)},
   reset : {None, Some("7pm ")}]

RECURSIVE TextsOfLen(_, _)
TextsOfLen(lines, n) ==
  IF n = 0 THEN {<<>>}
  ELSE {Append(t, l) : t \in TextsOfLen(lines, n - 1), l \in lines}

\* what run_codex_status / run_claude_usage returned
DriverRaws(lines) ==
  {ErrOf("spawn")}
  \cup {Ok(t) : t \in UNION {TextsOfLen(lines, n) : n \in 0..MaxTextLines}}

InitCodexParse ==
  /\ proj_in \in {Some([fn |-> "fetch_codex_usage", raw |-> r]) :
                     r \in DriverRaws(CodexLines)}
                \cup {Some([fn |-> "fetch_usage", raw |-> r]) :
                        r \in DriverRaws(ClaudeLines)}
  /\ proj_out = None
  /\ st_in = None /\ st_out = None
  /\ record_log = <<>> /\ asked = None
  /\ CycleQuiet

\* fetch_codex_usage after run_codex_status returned
CodexParseApply ==
  /\ proj_out = None
  /\ Unwrap(proj_in).fn = "fetch_codex_usage"
  /\ proj_out' = Some(fetch_codex_usage(Unwrap(proj_in).raw))
  /\ UNCHANGED <<proj_in, statusVars, notifVars, cycleVars, driverVars, storeVars, threadVars,
                 last_notifications>>

\* fetch_usage after run_claude_usage returned
UsageParseApply ==
  /\ proj_out = None
  /\ Unwrap(proj_in).fn = "fetch_usage"
  /\ proj_out' = Some(fetch_usage(Unwrap(proj_in).raw))
  /\ UNCHANGED <<proj_in, statusVars, notifVars, cycleVars, driverVars,
                 storeVars, threadVars, last_notifications>>

NextCodexParse == CodexParseApply \/ UsageParseApply

SpecCodexParse == InitCodexParse /\ [][NextCodexParse]_vars

\* the lines that hold the signature in some letter case
SignatureLines ==
  {[kind |-> "phrase", text |-> t] :
     t \in {"cursor position could not be read",
            "CURSOR POSITION COULD NOT BE READ",
            "Error: Cursor position could not be read"}}

\* C20: fetch_codex_usage fails with the cursor-position failure, producing
\* no reading, exactly when the captured text holds 'cursor position could
\* not be read' in any letter case, whatever limit lines the text holds; a
\* driver failure is passed on as it is.
Thm_C20_CursorFailure ==
  (proj_out # None /\ Unwrap(proj_in).fn = "fetch_codex_usage") =>
    LET raw == Unwrap(proj_in).raw
        out == Unwrap(proj_out)
    IN /\ ~IsOk(raw) => out = raw
       /\ IsOk(raw) =>
            LET signed == \E i \in 1..Len(OkVal(raw)) :
                             OkVal(raw)[i] \in SignatureLines
            IN /\ signed => (out = ErrOf("cursor position") /\ ~IsOk(out))
               /\ ~signed => IsOk(out)

\* the signature in capitals after a valid limit line: failure, no reading
Wit_C20_CursorFailure ==
  /\ proj_out # None
  /\ Unwrap(proj_in).fn = "fetch_codex_usage"
  /\ Unwrap(proj_in).raw =
       Ok(<<[kind |-> "limit", label |-> "5h limit", left |-> 99,
             reset |-> "13:35"],
            [kind |-> "phrase", text |-> "CURSOR POSITION COULD NOT BE READ"]>>)
  /\ Unwrap(proj_out) = ErrOf("cursor position")


\* the limit lines of a Codex text whose label is that of a quota, in any
\* letter case
LimitLines(text, labels) ==
  {i \in 1..Len(text) : text[i].kind = "limit" /\ text[i].label \in labels}

\* the maximum of a non-empty set of numbers
Last(S) == CHOOSE i \in S : \A j \in S : j <= i

\* a reset text without the blanks around it
Trimmed(str) ==
  IF str = "13:17 " THEN "13:17" ELSE IF str = "7pm " THEN "7pm" ELSE str

\* a fetch_codex_usage call has returned a reading
CodexParsed ==
  /\ proj_out # None
  /\ Unwrap(proj_in).fn = "fetch_codex_usage"
  /\ IsOk(Unwrap(proj_out))

\* C23: parse_codex_output sets, for each of the labels '5h limit' and
\* 'Weekly limit' in any letter case, the quota's left-percentage to the N
\* and its reset string to the trimmed T of the last line with that label;
\* a label without a line stays absent, the two labels do not affect each
\* other, N is kept as the remaining percent, and nothing else is set.
Thm_C23_CodexLines ==
  CodexParsed =>
    LET text == OkVal(Unwrap(proj_in).raw)
        d == OkVal(Unwrap(proj_out))
        five == LimitLines(text, {"5h limit"})
        week == LimitLines(text, {"Weekly limit", "WEEKLY LIMIT"})
    IN /\ five = {} =>
            (d.codex_five_hour_left = None /\ d.codex_five_hour_reset = None)
       /\ five # {} =>
            /\ d.codex_five_hour_left = Some(text[Last(five)].left)
            /\ d.codex_five_hour_reset =
                 Some(Trimmed(text[Last(five)].reset))
       /\ week = {} =>
            (d.codex_week_left = None /\ d.codex_week_reset = None)
       /\ week # {} =>
            /\ d.codex_week_left = Some(text[Last(week)].left)
            /\ d.codex_week_reset = Some(Trimmed(text[Last(week)].reset))
       /\ [d EXCEPT !.codex_five_hour_left = None,
                    !.codex_five_hour_reset = None,
                    !.codex_week_left = None,
                    !.codex_week_reset = None] = UsageData_new

\* two weekly lines in different letter cases: the later one is kept, its
\* reset text trimmed, and the five-hour quota stays absent
Wit_C23_CodexLines ==
  /\ CodexParsed
  /\ Unwrap(proj_in).raw =
       Ok(<<[kind |-> "limit", label |-> "Weekly limit", left |-> 99,
             reset |-> "13:35"],
            [kind |-> "limit", label |-> "WEEKLY LIMIT", left |-> 80,
             reset |-> "13:17 "]>>)
  /\ OkVal(Unwrap(proj_out)).codex_week_left = Some(80)
  /\ OkVal(Unwrap(proj_out)).codex_week_reset = Some("13:17")
  /\ OkVal(Unwrap(proj_out)).codex_five_hour_left = None

\* the section a Claude line names, read off its first words
MarkerOf(l) ==
  CASE l.marker = "Current session" -> "session"
    [] l.marker = "CURRENT WEEK (ALL MODELS)" -> "week_all"
    [] l.marker = "Current week (Sonnet only)" -> "week_sonnet"
    [] l.marker = "Extra usage not enabled" -> "extra"
    [] OTHER -> "none"

\* the section line i of a text belongs to: that of the last marker at or
\* before it
SectionAt(text, i) ==
  LET ms == {j \in 1..i : MarkerOf(text[j]) # "none"}
  IN IF ms = {} THEN "none" ELSE MarkerOf(text[Last(ms)])

\* the lines of a section that hold a percentage / a reset text
PctLines(text, section) ==
  {i \in 1..Len(text) : IsSome(text[i].pct) /\ SectionAt(text, i) = section}
ResetLines(text, section) ==
  {i \in 1..Len(text) : IsSome(text[i].reset) /\ SectionAt(text, i) = section}

\* a fetch_usage call has returned a reading
UsageParsed ==
  /\ proj_out # None
  /\ Unwrap(proj_in).fn = "fetch_usage"
  /\ IsOk(Unwrap(proj_out))

\* the percentage and reset fields of the three quotas of a Claude reading
ClaudeFields ==
  {<<"session", "current_session_percent", "current_session_reset">>,
   <<"week_all", "current_week_all_models_percent",
     "current_week_all_models_reset">>,
   <<"week_sonnet", "current_week_sonnet_percent",
     "current_week_sonnet_reset">>}

\* C24: parse_usage_output gives every 'N% used' line and every 'Resets T'
\* line to the section of the most recent marker, one on the same line
\* included; lines before any marker or in the extra-usage section set
\* nothing; the last line of a section wins; a section without a line
\* stays absent.
Thm_C24_UsageSections ==
  UsageParsed =>
    LET text == OkVal(Unwrap(proj_in).raw)
        d == OkVal(Unwrap(proj_out))
    IN \A q \in ClaudeFields :
         LET ps == PctLines(text, q[1])
             rs == ResetLines(text, q[1])
         IN /\ d[q[2]] = IF ps = {} THEN None ELSE text[Last(ps)].pct
            /\ d[q[3]] = IF rs = {} THEN None
                         ELSE Some(Trimmed(Unwrap(text[Last(rs)].reset)))

\* a percentage before any marker, then the session marker with 26% on its
\* own line and the reset text: only the session is set, from that line
Wit_C24_UsageSections ==
  /\ UsageParsed
  /\ Unwrap(proj_in).raw =
       Ok(<<[marker |-> "", pct |-> Some(3), reset |-> None],
            [marker |-> "Current session", pct |-> Some(26),
             reset |-> Some("7pm ")]>>)
  /\ OkVal(Unwrap(proj_out)) =
       [UsageData_new EXCEPT !.current_session_percent = Some(26),
                             !.current_session_reset = Some("7pm")]

\* the text of a returned parser call holds no line a quota pattern matches
NoQuotaMatch ==
  /\ proj_out # None
  /\ IsOk(Unwrap(proj_in).raw)
  /\ LET text == OkVal(Unwrap(proj_in).raw)
     IN IF Unwrap(proj_in).fn = "fetch_usage"
          THEN \A i \in 1..Len(text) :
                 text[i].pct = None /\ text[i].reset = None
        ELSE /\ Unwrap(proj_in).fn = "fetch_codex_usage"
             /\ \A i \in 1..Len(text) :
                  /\ text[i].kind = "phrase"
                  /\ text[i] \notin SignatureLines

store_set(settings) ==
  Some([f \in DOMAIN settings |-> Some(settings[f])])

\* variant: the command does not validate before it saves and assigns
save_allowed_unchecked(new_settings) == TRUE

\* new_settings.validate().map_err(..)? in save_settings_cmd (and again in
\* save_settings)
save_allowed(new_settings) == validate(new_settings)

\* settings the frontend can send: two valid ones, and each of them with
\* one field moved to or across a border of its range
SettingsBases ==
  {Settings_default, Settings(60, 99, 200, FALSE, 200, 200)}

SettingsInputs ==
  SettingsBases
  \cup {[b EXCEPT !.refresh_interval_minutes = v] :
          b \in SettingsBases, v \in {10, 5}}
  \cup {[b EXCEPT !.threshold_under_budget = v] :
          b \in SettingsBases, v \in {0, 1, 100, 115}}
  \cup {[b EXCEPT !.threshold_on_track = v] :
          b \in SettingsBases, v \in {1, 2, 85, 201}}
  \cup {[b EXCEPT !.notify_approaching_percent = v] :
          b \in SettingsBases, v \in {0, 1, 116, 201}}
  \cup {[b EXCEPT !.notify_over_budget_percent = v] :
          b \in SettingsBases, v \in {0, 1, 99, 201}}

InitSettings ==
  /\ UnitIdle
  /\ CycleInit
  /\ store \in StoreInputs
  /\ app_state = AppState_new(Settings_default)
  /\ last_notifications = NotificationState_new

\* run(), setup: state.settings = load_settings(&app_handle)
LoadSettings ==
  /\ app_state' = [app_state EXCEPT !.settings = load_settings(store)]
  /\ proj_in' = Some([fn |-> "load_settings", store |-> store])
  /\ proj_out' = Some(Ok(load_settings(store)))
  /\ UNCHANGED <<statusVars, notifVars, clock, cycle, tray_icon, timer_due,
                 emitted, driverVars, storeVars, threadVars, last_notifications>>

\* save_settings_cmd(new_settings): validate, save_settings (validate, open
\* the store, set the six fields, save), then assign the in-memory settings;
\* io tells whether the store opens and whether its save succeeds
save_settings_cmd(new_settings, io) ==
  /\ proj_in' = Some([fn |-> "save_settings_cmd",
                      new_settings |-> new_settings, io |-> io,
                      before |-> app_state.settings])
  /\ IF ~save_allowed(new_settings)
       THEN /\ proj_out' = Some(Err)
            /\ UNCHANGED <<app_state, store>>
     ELSE IF io = "open_fails"
       THEN /\ proj_out' = Some(Err)
            /\ UNCHANGED <<app_state, store>>
     ELSE IF io = "save_fails"
       THEN /\ proj_out' = Some(Err)
            /\ store' = store_set(new_settings)
            /\ UNCHANGED app_state
     ELSE /\ proj_out' = Some(Ok(<<>>))
          /\ store' = store_set(new_settings)
          /\ app_state' = [app_state EXCEPT !.settings = new_settings]
  /\ UNCHANGED <<statusVars, notifVars, clock, cycle, tray_icon, timer_due,
                 emitted, driverVars, threadVars, last_notifications>>

NextSettings ==
  \/ LoadSettings
  \/ \E new_settings \in SettingsInputs,
        io \in {"ok", "open_fails", "save_fails"} :
       save_settings_cmd(new_settings, io)

SpecSettings == InitSettings /\ [][NextSettings]_vars

\* the constraints of the claim, written out
SettingsValid(st) ==
  /\ st.refresh_interval_minutes \in {5, 15, 30, 60}
  /\ st.threshold_under_budget \in 1..99
  /\ st.threshold_on_track \in 2..200
  /\ st.threshold_under_budget < st.threshold_on_track
  /\ st.notify_approaching_percent \in 1..200
  /\ st.notify_over_budget_percent \in 1..200
  /\ st.notify_over_budget_percent >= st.notify_approaching_percent

\* the fields a store holds, each absent one replaced by its default
StoreSettings(st) ==
  LET f == Unwrap(st)
      d == Settings_default
  IN [k \in DOMAIN d |-> IF IsSome(f[k]) THEN Unwrap(f[k]) ELSE d[k]]

\* C26: the settings in AppState always satisfy every validation constraint;
\* a save_settings_cmd with settings that violate one returns an error and
\* leaves the in-memory settings as they were before the call; a load that
\* finds invalid settings in the store yields the defaults.
Thm_C26_SettingsValid ==
  /\ SettingsValid(app_state.settings)
  /\ proj_in # None =>
       LET call == Unwrap(proj_in)
       IN /\ (call.fn = "save_settings_cmd"
                /\ ~SettingsValid(call.new_settings)) =>
               (proj_out = Some(Err) /\ app_state.settings = call.before)
          /\ (call.fn = "load_settings" /\ call.store # None
                /\ ~SettingsValid(StoreSettings(call.store))) =>
               app_state.settings = Settings_default

\* a save of settings whose only fault is under-budget = on-track was
\* refused after an earlier save had changed the settings
Wit_C26_SettingsValid ==
  /\ proj_in # None
  /\ Unwrap(proj_in).fn = "save_settings_cmd"
  /\ Unwrap(proj_in).new_settings =
       [Settings_default EXCEPT !.threshold_under_budget = 115]
  /\ proj_out = Some(Err)
  /\ app_state.settings = Settings(60, 99, 200, FALSE, 200, 200)


\* ------------------------------------------------------------------------
\* Specification SpecLocks: the threads of run() and the two mutexes
\* ------------------------------------------------------------------------
\* variant: a lock() that does not wait for the mutex
mutex_available_always(mutex) == TRUE

\* Mutex::lock returns once the mutex is unlocked
mutex_available(mutex) == mutex = None

\* variant: the guard outlives its block
guard_kept(mutex) == mutex

\* the guard goes out of scope: the mutex is unlocked
guard_dropped(mutex) == None

\* settings the frontend saves while cycles run
SavedSettings ==
  {[Settings_default EXCEPT !.notifications_enabled = FALSE],
   [Settings_default EXCEPT !.threshold_under_budget = 0]}

\* how the fetches of a cycle of this specification end
LockFetches ==
  {<<Err, Err>>,
   <<Ok(UsageData(Some(110), Some(SessionReset), Some(110), Some(WeekReset),
                  Some(50), Some(BadReset), None, None, None, None)),
     Ok(UsageData(None, None, None, None, None, None,
                  Some(99), Some("13:35"), Some(80), Some("13:17")))>>}

\* a thread's usage result for a tool
usage_of(l, tool) == IF tool = "claude" THEN l.claude_usage ELSE l.codex_usage

\* [projection_claude.as_ref(), projection_codex.as_ref()].into_iter()
\* .flatten(), as the tools whose projection is Some
projections_of(l) ==
  (IF IsOk(l.claude_usage) THEN <<"claude">> ELSE <<>>)
    \o (IF IsOk(l.codex_usage) THEN <<"codex">> ELSE <<>>)

\* where a thread goes when fetch_and_update returns: the auto-refresh loop
\* goes on to clear is_refreshing, a spawned closure ends
after_cycle(t) == IF t = "timer" THEN "done_lock" ELSE "finished"

\* the positions inside fetch_and_update
CyclePcs ==
  {"start", "settings_held", "notif_lock", "check", "record", "update_lock",
   "update_held", "menu_lock", "menu_held"}

\* the positions at which a thread holds the AppState guard, and those at
\* which it holds the NotificationState guard
StateHeldPcs ==
  {"settings_held", "update_held", "menu_held", "interval_held", "swap_held",
   "done_held", "get_held", "save_held"}
NotifHeldPcs == {"check", "record"}

\* the positions at which a thread waits in lock() (the commands wait in
\* theirs as their first step)
StateLockPcs ==
  {"start", "update_lock", "menu_lock", "loop", "swap_lock", "done_lock",
   "idle"}
NotifLockPcs == {"notif_lock"}

InCycle(t) == threads.th[t].pc \in CyclePcs

lockQuiet ==
  <<projVars, statusVars, notifVars, driverVars, clock, cycle, timer_due,
    emitted>>

\* after setup: the initial fetch thread and the auto-refresh thread are
\* spawned, no refresh was asked for, no command is running
InitLocks ==
  /\ UnitIdle
  /\ driver = DriverIdle
  /\ clock = NowBase /\ cycle = CycleIdle /\ tray_icon = "Unknown"
  /\ timer_due = FALSE /\ emitted = <<>>
  /\ store = None
  /\ app_state = AppState_new(Settings_default)
  /\ last_notifications = NotificationState_new
  /\ threads =
       [ThreadsIdle EXCEPT !.th["timer"].pc = "loop",
                           !.th["initial"].pc = "start",
                           !.th["ui"].pc = "idle"]

\* "refresh" menu event: thread::spawn(move || fetch_and_update(..))
RefreshEvent(t) ==
  /\ t \in ManualThreads
  /\ threads.th[t].pc = "unspawned"
  /\ threads' = [threads EXCEPT !.th[t].pc = "start"]
  /\ UNCHANGED <<app_state, last_notifications, tray_icon, store, lockQuiet>>

\* fetch_and_update, line 277: state.lock(), guard.settings.clone()
CycleSettings(t) ==
  /\ threads.th[t].pc = "start"
  /\ mutex_available(threads.state_mutex)
  /\ threads' = [threads EXCEPT
                   !.state_mutex = Some(t),
                   !.th[t].pc = "settings_held",
                   !.th[t].current_settings = app_state.settings]
  /\ UNCHANGED <<app_state, last_notifications, tray_icon, store, lockQuiet>>

\* lines 279-311: the guard is dropped, both fetches run, and the function
\* returns when neither produced data
CycleFetch(t, fetched) ==
  /\ threads.th[t].pc = "settings_held"
  /\ threads' =
       IF ~IsOk(fetched[1]) /\ ~IsOk(fetched[2])
         THEN [threads EXCEPT
                 !.state_mutex = guard_dropped(@),
                 !.th[t] = [ThreadIdle EXCEPT !.pc = after_cycle(t)]]
       ELSE [threads EXCEPT
               !.state_mutex = guard_dropped(@),
               !.th[t].claude_usage = fetched[1],
               !.th[t].codex_usage = fetched[2],
               !.th[t].pc =
                  IF threads.th[t].current_settings.notifications_enabled
                    THEN "notif_lock" ELSE "update_lock"]
  /\ UNCHANGED <<app_state, last_notifications, tray_icon, store, lockQuiet>>

\* line 351: notif_state.lock()
CycleNotifLock(t) ==
  /\ threads.th[t].pc = "notif_lock"
  /\ mutex_available(threads.notif_mutex)
  /\ threads' = [threads EXCEPT
                   !.notif_mutex = Some(t),
                   !.th[t].pc = "check",
                   !.th[t].todo = projections_of(threads.th[t])]
  /\ UNCHANGED <<app_state, last_notifications, tray_icon, store, lockQuiet>>

\* lines 352-358 and 369: check_notifications for the next projection, or
\* the end of the block, where notif_guard is dropped
CycleCheck(t) ==
  /\ threads.th[t].pc = "check"
  /\ LET l == threads.th[t]
         st == l.current_settings
     IN IF l.todo = <<>>
          THEN threads' = [threads EXCEPT
                             !.notif_mutex = guard_dropped(@),
                             !.th[t].pc = "update_lock"]
        ELSE LET notifications ==
                   tool_notifications(
                      project_tool(usage_of(l, Head(l.todo)), st, clock),
                      last_notifications, st, clock)
             IN threads' =
                  IF notifications = <<>>
                    THEN [threads EXCEPT !.th[t].todo = Tail(@)]
                  ELSE [threads EXCEPT !.th[t].pc = "record",
                                       !.th[t].infos = notifications]
  /\ UNCHANGED <<app_state, last_notifications, tray_icon, store, lockQuiet>>

\* lines 359-367: show the notification and record it
CycleRecord(t) ==
  /\ threads.th[t].pc = "record"
  /\ LET l == threads.th[t]
         info == Head(l.infos)
     IN /\ last_notifications' =
             record_notification(last_notifications, info.quota_type,
                                 info.severity, info.reset_time)
        /\ threads' =
             IF Tail(l.infos) = <<>>
               THEN [threads EXCEPT !.th[t].pc = "check",
                                    !.th[t].infos = <<>>,
                                    !.th[t].todo = Tail(@)]
             ELSE [threads EXCEPT !.th[t].infos = Tail(@)]
  /\ UNCHANGED <<app_state, tray_icon, store, lockQuiet>>

\* lines 372-380: state.lock() and the assignments of the cycle's results
CycleUpdate(t) ==
  /\ threads.th[t].pc = "update_lock"
  /\ mutex_available(threads.state_mutex)
  /\ LET l == threads.th[t]
         st == l.current_settings
     IN app_state' = [app_state EXCEPT
           !.usage_claude = ok(l.claude_usage),
           !.usage_codex = ok(l.codex_usage),
           !.projection_claude = project_tool(l.claude_usage, st, clock),
           !.projection_codex = project_tool(l.codex_usage, st, clock),
           !.last_refresh = Some(clock)]
  /\ threads' = [threads EXCEPT !.state_mutex = Some(t),
                                !.th[t].pc = "update_held"]
  /\ UNCHANGED <<last_notifications, tray_icon, store, lockQuiet>>

\* line 380: the block ends and state_guard is dropped
CycleUpdated(t) ==
  /\ threads.th[t].pc = "update_held"
  /\ threads' = [threads EXCEPT !.state_mutex = guard_dropped(@),
                                !.th[t].pc = "menu_lock"]
  /\ UNCHANGED <<app_state, last_notifications, tray_icon, store, lockQuiet>>

\* lines 383-395: state.lock(), build_usage_menu, set_menu, update_tray_icon
CycleMenu(t) ==
  /\ threads.th[t].pc = "menu_lock"
  /\ mutex_available(threads.state_mutex)
  /\ LET l == threads.th[t]
         st == l.current_settings
     IN tray_icon' =
          overall_status_of(<<project_tool(l.claude_usage, st, clock),
                              project_tool(l.codex_usage, st, clock)>>)
  /\ threads' = [threads EXCEPT !.state_mutex = Some(t),
                                !.th[t].pc = "menu_held"]
  /\ UNCHANGED <<app_state, last_notifications, store, lockQuiet>>

\* line 400: the function returns and state_guard is dropped
CycleReturn(t) ==
  /\ threads.th[t].pc = "menu_held"
  /\ threads' = [threads EXCEPT
                   !.state_mutex = guard_dropped(@),
                   !.th[t] = [ThreadIdle EXCEPT !.pc = after_cycle(t)]]
  /\ UNCHANGED <<app_state, last_notifications, tray_icon, store, lockQuiet>>

\* start_auto_refresh, lines 412-415: state.lock(), read the interval
TimerInterval ==
  /\ threads.th["timer"].pc = "loop"
  /\ mutex_available(threads.state_mutex)
  /\ threads' = [threads EXCEPT !.state_mutex = Some("timer"),
                                !.th["timer"].pc = "interval_held"]
  /\ UNCHANGED <<app_state, last_notifications, tray_icon, store, lockQuiet>>

\* lines 415-418: the guard is dropped, thread::sleep(interval)
TimerSleep ==
  /\ threads.th["timer"].pc = "interval_held"
  /\ threads' = [threads EXCEPT !.state_mutex = guard_dropped(@),
                                !.th["timer"].pc = "swap_lock"]
  /\ UNCHANGED <<app_state, last_notifications, tray_icon, store, lockQuiet>>

\* lines 422-423: state.lock(), is_refreshing.swap(true, SeqCst)
TimerSwap ==
  /\ threads.th["timer"].pc = "swap_lock"
  /\ mutex_available(threads.state_mutex)
  /\ app_state' = [app_state EXCEPT !.is_refreshing = TRUE]
  /\ threads' = [threads EXCEPT !.state_mutex = Some("timer"),
                                !.th["timer"].pc = "swap_held",
                                !.th["timer"].skip = app_state.is_refreshing]
  /\ UNCHANGED <<last_notifications, tray_icon, store, lockQuiet>>

\* lines 423-429: continue when the flag was set, else call
\* fetch_and_update; the guard is dropped either way
TimerBranch ==
  /\ threads.th["timer"].pc = "swap_held"
  /\ threads' = [threads EXCEPT
                   !.state_mutex = guard_dropped(@),
                   !.th["timer"].skip = FALSE,
                   !.th["timer"].pc = IF threads.th["timer"].skip THEN "loop"
                                      ELSE "start"]
  /\ UNCHANGED <<app_state, last_notifications, tray_icon, store, lockQuiet>>

\* lines 433-434: state.lock(), is_refreshing.store(false, SeqCst)
TimerDone ==
  /\ threads.th["timer"].pc = "done_lock"
  /\ mutex_available(threads.state_mutex)
  /\ app_state' = [app_state EXCEPT !.is_refreshing = FALSE]
  /\ threads' = [threads EXCEPT !.state_mutex = Some("timer"),
                                !.th["timer"].pc = "done_held"]
  /\ UNCHANGED <<last_notifications, tray_icon, store, lockQuiet>>

\* line 435: the guard is dropped, the loop starts over
TimerLoop ==
  /\ threads.th["timer"].pc = "done_held"
  /\ threads' = [threads EXCEPT !.state_mutex = guard_dropped(@),
                                !.th["timer"].pc = "loop"]
  /\ UNCHANGED <<app_state, last_notifications, tray_icon, store, lockQuiet>>

\* get_settings, line 444: state.lock()
GetSettingsLock ==
  /\ threads.th["ui"].pc = "idle"
  /\ mutex_available(threads.state_mutex)
  /\ threads' = [threads EXCEPT !.state_mutex = Some("ui"),
                                !.th["ui"].pc = "get_held"]
  /\ UNCHANGED <<app_state, last_notifications, tray_icon, store, lockQuiet>>

\* get_settings, lines 445-446: guard.settings.clone(), return
GetSettingsReturn ==
  /\ threads.th["ui"].pc = "get_held"
  /\ threads' = [threads EXCEPT !.state_mutex = guard_dropped(@),
                                !.th["ui"].pc = "idle"]
  /\ UNCHANGED <<app_state, last_notifications, tray_icon, store, lockQuiet>>

\* save_settings_cmd, lines 454-462: validate and save_settings, each
\* returning early on an error (io tells whether the store opens and
\* saves), then state.lock() and guard.settings = new_settings
SaveCmdAssign(new_settings, io) ==
  /\ threads.th["ui"].pc = "idle"
  /\ store' = IF save_allowed(new_settings) /\ io # "open_fails"
                THEN store_set(new_settings) ELSE store
  /\ IF save_allowed(new_settings) /\ io = "ok"
       THEN /\ mutex_available(threads.state_mutex)
            /\ app_state' = [app_state EXCEPT !.settings = new_settings]
            /\ threads' = [threads EXCEPT !.state_mutex = Some("ui"),
                                          !.th["ui"].pc = "save_held"]
     ELSE UNCHANGED <<app_state, threads>>
  /\ UNCHANGED <<last_notifications, tray_icon, lockQuiet>>

\* save_settings_cmd, line 464: Ok(()), the guard is dropped
SaveCmdReturn ==
  /\ threads.th["ui"].pc = "save_held"
  /\ threads' = [threads EXCEPT !.state_mutex = guard_dropped(@),
                                !.th["ui"].pc = "idle"]
  /\ UNCHANGED <<app_state, last_notifications, tray_icon, store, lockQuiet>>

fetch_and_update(t) ==
  \/ CycleSettings(t)
  \/ \E fetched \in LockFetches : CycleFetch(t, fetched)
  \/ CycleNotifLock(t)
  \/ CycleCheck(t)
  \/ CycleRecord(t)
  \/ CycleUpdate(t)
  \/ CycleUpdated(t)
  \/ CycleMenu(t)
  \/ CycleReturn(t)

start_auto_refresh ==
  \/ TimerInterval
  \/ TimerSleep
  \/ TimerSwap
  \/ TimerBranch
  \/ TimerDone
  \/ TimerLoop

NextLocks ==
  \/ \E t \in ManualThreads : RefreshEvent(t)
  \/ \E t \in FetchThreads : fetch_and_update(t)
  \/ start_auto_refresh
  \/ GetSettingsLock
  \/ GetSettingsReturn
  \/ \E new_settings \in SavedSettings, io \in {"ok", "open_fails"} :
       SaveCmdAssign(new_settings, io)
  \/ SaveCmdReturn

SpecLocks == InitLocks /\ [][NextLocks]_vars

\* C35: the dedup map is only read and written by the thread that holds
\* the NotificationState mutex, and the checks and records of one cycle
\* are one critical section: what a cycle found it should notify still
\* holds when it records it, and no other thread is between its checks.
Thm_C35_DedupUnderMutex ==
  \A t \in FetchThreads :
    threads.th[t].pc \in NotifHeldPcs =>
      /\ threads.notif_mutex = Some(t)
      /\ \A u \in FetchThreads \ {t} : threads.th[u].pc \notin NotifHeldPcs
      /\ \A i \in 1..Len(threads.th[t].infos) :
           LET info == threads.th[t].infos[i]
           IN should_notify(last_notifications, info.quota_type,
                            info.severity, info.reset_time)

Wit_C35_DedupUnderMutex ==
  \E t \in FetchThreads, u \in FetchThreads :
    /\ t # u
    /\ threads.th[t].pc = "record"
    /\ Len(threads.th[t].infos) = 1
    /\ threads.th[t].todo = <<"claude", "codex">>
    /\ threads.th[u].pc = "notif_lock"
    /\ IsOk(threads.th[u].claude_usage)

\* C36: no thread holds both mutexes; a thread holds a mutex exactly
\* between its lock() and the end of the guard's scope, and has released
\* it before it locks again; a thread that waits in lock() waits for a
\* mutex that is free or held by a thread that is not waiting.
Thm_C36_NoNestedLocks ==
  /\ \A t \in Threads :
       /\ ~(threads.state_mutex = Some(t) /\ threads.notif_mutex = Some(t))
       /\ threads.state_mutex = Some(t) <=> threads.th[t].pc \in StateHeldPcs
       /\ threads.notif_mutex = Some(t) <=> threads.th[t].pc \in NotifHeldPcs
  /\ \A t \in Threads :
       /\ threads.th[t].pc \in StateLockPcs /\ threads.state_mutex # None =>
            threads.th[Unwrap(threads.state_mutex)].pc
              \notin StateLockPcs \cup NotifLockPcs
       /\ threads.th[t].pc \in NotifLockPcs /\ threads.notif_mutex # None =>
            threads.th[Unwrap(threads.notif_mutex)].pc
              \notin StateLockPcs \cup NotifLockPcs

Wit_C36_NoNestedLocks ==
  /\ threads.notif_mutex = Some("initial")
  /\ threads.state_mutex = Some("ui")
  /\ threads.th["ui"].pc = "save_held"
  /\ threads.th["timer"].pc = "update_lock"

\* C37: at most one fetch_and_update call is in progress at any time, and
\* is_refreshing is false whenever the auto-refresh loop is outside its
\* cycle.
Orig_C37_OneCycleAtATime ==
  /\ Cardinality({t \in FetchThreads : InCycle(t)}) <= 1
  /\ threads.th["timer"].pc \in {"loop", "interval_held", "swap_lock"} =>
       ~app_state.is_refreshing

====
